---- MODULE Spec2Model ----
(***************************************************************************)
(* ShellPack (MoxForge/shellpack): the backup and restore orchestrators,   *)
(* the per-category backup routines, the manifest builder, the checksum    *)
(* and the name sanitizer, as state machines.                              *)
(*                                                                         *)
(* Files are byte sequences, a directory tree is a function from paths     *)
(* (sequences of path components) to byte sequences.  External commands    *)
(* and file operations the code guards with try/except or a return-code    *)
(* test have a nondeterministic outcome.                                   *)
(***************************************************************************)
EXTENDS Integers, Sequences, FiniteSets, TLC

VARIABLES
    pc,            \* position of the process in cli.main / do_backup / do_restore
    cmd,           \* subcommand dispatched by cli.main: "backup" or "restore"
    dry_run,       \* config.dry_run
    home,          \* entries that exist under config.home when the run starts
    env,           \* the machine: os_name, pm, missing dependencies, installed shells
    repo_url,      \* answer to the "Repository URL" prompt
    backup_name,   \* sanitized backup name
    is_shareable,  \* type_choice == 2
    include,       \* include_ssh, include_git_cfg, include_history, include_cloud_creds, include_conda
    shells_to_backup, \* list built by the selection loop
    shell_idx,     \* position of the "for shell in shells_to_backup" loop
    invoked,       \* routines called so far, in call order
    status,        \* last print_status/print_error severity per category
    staged,        \* files of backup_dir (temp_dir/backup/<name>)
    stagedExists,  \* backup_dir exists
    tempDir,       \* config.temp_dir exists
    manifestFile,  \* content of backup_dir/manifest.json
    manifestRet,   \* return value of create_manifest
    gitOps,        \* transport steps attempted, in order
    workcopy,      \* git_dir/backups: backup directories of the working copy
    reported,      \* user-facing messages the claims are about
    exitCode,      \* process exit status, -1 while running
    faults,        \* failures of guarded file operations and sub-commands so far
    choice,        \* read_choice: options, console output, result
    sn,            \* sanitize_name: input, clock reading, output
    ck,            \* calculate_checksum: tree, enumeration, digests
    rs,            \* do_restore after the confirmation: shells offered, default
                   \* shell, loop position, home entries written, system changes
    fn             \* a function called on its own: its arguments and its result

vars == <<pc, cmd, dry_run, home, env, repo_url, backup_name, is_shareable, include,
          shells_to_backup, shell_idx, invoked, status, staged, stagedExists,
          tempDir, manifestFile, manifestRet, gitOps, workcopy, reported, exitCode,
          faults, choice, sn, ck, rs, fn>>

orchVars == <<pc, cmd, dry_run, home, env, repo_url, backup_name, is_shareable, include,
              shells_to_backup, shell_idx, invoked, status, staged, stagedExists,
              tempDir, manifestFile, manifestRet, gitOps, workcopy, reported, exitCode,
              faults, choice, rs>>

(***************************************************************************)
(* Bounds of the model.                                                    *)
(***************************************************************************)
\* guarded file operations and external commands that may fail in one run
MaxFaults == 1
\* command-line arguments given to cli.main
MaxArgs == 3
\* invalid answers a user gives to one read_choice prompt
MaxReprompts == 2

(***************************************************************************)
(* Generic helpers.                                                        *)
(***************************************************************************)
EmptyTree == [p \in {} |-> <<>>]

Range(s) == {s[i] : i \in 1..Len(s)}

\* position of x in the sequence s
IndexOf(s, x) == CHOOSE i \in 1..Len(s) : s[i] = x

\* files of tree t below directory prefix d, re-rooted at d
SubTree(t, d) ==
    LET ps == {p \in DOMAIN t : Len(p) > Len(d) /\ SubSeq(p, 1, Len(d)) = d}
        rel == {SubSeq(p, Len(d) + 1, Len(p)) : p \in ps}
    IN [q \in rel |-> t[d \o q]]

SeqOfShells(S) ==
    (IF "fish" \in S THEN <<"fish">> ELSE <<>>) \o
    (IF "bash" \in S THEN <<"bash">> ELSE <<>>) \o
    (IF "zsh" \in S THEN <<"zsh">> ELSE <<>>)

(***************************************************************************)
(* The home directory.  HomePaths is what may exist under config.home in   *)
(* the model; Homes are the home directories a run starts from.            *)
(***************************************************************************)
HomePaths == {".config/fish", ".bashrc", ".zshrc", ".oh-my-zsh", ".config/starship.toml",
              ".gitconfig", ".ssh", "miniconda3/bin/conda", ".bash_history", ".aws"}

Homes == { {".bashrc", ".zshrc"},
           {".bashrc", ".zshrc", ".oh-my-zsh", ".config/fish", ".ssh", ".aws"},
           {".config/starship.toml", ".gitconfig", "miniconda3/bin/conda", ".bash_history"} }

\* bytes of a home file, and of the gzip tar archive of a home directory
FileBytes(p) ==
    CASE p = ".bashrc" -> <<1>>
      [] p = ".zshrc" -> <<2>>
      [] p = ".config/starship.toml" -> <<3>>
      [] p = ".gitconfig" -> <<4>>
      [] p = ".bash_history" -> <<>>
      [] OTHER -> <<5>>

TarBytes(p) ==
    CASE p = ".config/fish" -> <<6, 1>>
      [] p = ".oh-my-zsh" -> <<6, 2>>
      [] p = ".ssh" -> <<6, 3>>
      [] OTHER -> <<6, 4>>

\* an archive whose tar.add() raised after tarfile.open() had created the file
PartialTar == <<6>>

Shells == {"fish", "bash", "zsh"}
Deps == {"git", "curl", "tar"}

BashFiles == <<".bashrc", ".bash_aliases", ".bash_profile", ".profile", ".bash_logout">>
ZshFiles == <<".zshrc", ".zprofile", ".zshenv", ".zlogin", ".zlogout">>

\* outcomes of a guarded tarfile.open(...)/tar.add(...) block
TarOutcomes == {"ok", "open_fail", "add_fail"}

\* the file a tar block leaves at path p
TarResult(p, src, io) ==
    CASE io = "ok" -> (p :> TarBytes(src))
      [] io = "add_fail" -> (p :> PartialTar)
      [] OTHER -> EmptyTree

\* copy_file over the files fs found in the home directory; bad are the
\* files whose shutil.copy2 raised (logged, False returned, no file)
CopyFiles(dir, fs, bad) ==
    [p \in {dir \o <<f>> : f \in fs \ bad} |-> FileBytes(p[Len(p)])]

(***************************************************************************)
(* Category routines of backup.py.  Each gives the files it writes below   *)
(* dest_dir and the severity of the status line it prints; io is the       *)
(* outcome of its guarded operations.                                      *)
(***************************************************************************)
backup_fish(h, dry, io) ==
    IF ".config/fish" \notin h THEN [files |-> EmptyTree, status |-> "skip"]
    ELSE IF dry THEN [files |-> EmptyTree, status |-> "info"]
    ELSE [files |-> TarResult(<<"shells", "fish", "fish_config.tar.gz">>, ".config/fish", io),
          status |-> IF io = "ok" THEN "ok" ELSE "error"]

backup_bash(h, dry, bad) ==
    LET found == Range(BashFiles) \cap h
    IN [files |-> IF dry THEN EmptyTree ELSE CopyFiles(<<"shells", "bash">>, found, bad),
        status |-> IF Cardinality(found) > 0 THEN "ok" ELSE "skip"]

backup_zsh(h, dry, bad, io) ==
    LET found == Range(ZshFiles) \cap h
        copied == IF dry THEN EmptyTree ELSE CopyFiles(<<"shells", "zsh">>, found, bad)
        omz == IF ".oh-my-zsh" \in h /\ ~dry
               THEN TarResult(<<"shells", "zsh", "ohmyzsh.tar.gz">>, ".oh-my-zsh", io)
               ELSE EmptyTree
    IN [files |-> omz @@ copied,
        status |-> IF ".oh-my-zsh" \in h THEN "ok"
                   ELSE IF Cardinality(found) > 0 THEN "ok" ELSE "skip"]

\* sub-commands and list files per package manager
PkgCommands(pm) ==
    CASE pm = "apt" -> <<"apt_packages.txt", "apt_manual.txt">>
      [] pm = "brew" -> <<"brew_formula.txt", "brew_cask.txt", "brew_leaves.txt">>
      [] pm \in {"dnf", "yum"} -> <<"rpm_packages.txt">>
      [] pm = "pacman" -> <<"pacman_packages.txt", "pacman_aur.txt">>
      [] OTHER -> <<>>

\* a backup_packages that writes every list file, whatever the exit status
backup_packages_WritesAlways(pm, dry, failed) ==
    IF dry THEN [files |-> EmptyTree, status |-> "info"]
    ELSE IF PkgCommands(pm) = <<>> THEN [files |-> EmptyTree, status |-> "skip"]
    ELSE [files |-> [p \in {<<"packages", f>> : f \in Range(PkgCommands(pm))} |-> <<7>>],
          status |-> "ok"]

\* failed: the list files whose sub-command exited non-zero
backup_packages(pm, dry, failed) ==
    IF dry THEN [files |-> EmptyTree, status |-> "info"]
    ELSE IF PkgCommands(pm) = <<>> THEN [files |-> EmptyTree, status |-> "skip"]
    ELSE [files |-> [p \in {<<"packages", f>> : f \in Range(PkgCommands(pm)) \ failed} |-> <<7>>],
          status |-> "ok"]

backup_starship(h, dry, bad) ==
    IF ".config/starship.toml" \notin h THEN [files |-> EmptyTree, status |-> "skip"]
    ELSE [files |-> IF dry \/ bad THEN EmptyTree
                    ELSE (<<"config", "starship.toml">> :> FileBytes(".config/starship.toml")),
          status |-> "ok"]

backup_git_config(h, dry, bad) ==
    IF ".gitconfig" \notin h THEN [files |-> EmptyTree, status |-> "skip"]
    ELSE [files |-> IF dry \/ bad THEN EmptyTree
                    ELSE (<<"config", ".gitconfig">> :> FileBytes(".gitconfig")),
          status |-> "ok"]

backup_ssh(h, dry, io) ==
    IF ".ssh" \notin h THEN [files |-> EmptyTree, status |-> "skip"]
    ELSE IF dry THEN [files |-> EmptyTree, status |-> "info"]
    ELSE [files |-> TarResult(<<"ssh", "ssh_backup.tar.gz">>, ".ssh", io),
          status |-> IF io = "ok" THEN "ok" ELSE "error"]

\* environments "conda env list" may name in the model
CondaEnvs == {"base", "ml"}

\* listed: "conda env list" exited zero within its timeout; exported: the
\* names kept from the listing whose export exited zero
CondaBins == {"miniconda3/bin/conda", "anaconda3/bin/conda", "miniforge3/bin/conda"}

YmlName(e) == e \o ".yml"

backup_conda(h, dry, listed, exported) ==
    IF CondaBins \cap h = {} THEN [files |-> EmptyTree, status |-> "skip"]
    ELSE IF dry THEN [files |-> EmptyTree, status |-> "info"]
    ELSE IF ~listed THEN [files |-> EmptyTree, status |-> "warn"]
    ELSE [files |-> [p \in {<<"conda", YmlName(e)>> : e \in exported} |-> <<8>>],
          status |-> IF Cardinality(exported) > 0 THEN "ok" ELSE "warn"]

\* bad: files whose copy_file failed; treeok: shutil.copytree of the fish
\* history directory did not raise
backup_history(h, dry, bad, treeok) ==
    IF dry THEN [files |-> EmptyTree, status |-> "info"]
    ELSE LET found == {".bash_history", ".zsh_history"} \cap h
             copied == CopyFiles(<<"history">>, found, bad)
             fish == IF ".local/share/fish" \in h /\ treeok
                     THEN (<<"history", "fish", "fish_history">> :> FileBytes(".local/share/fish"))
                     ELSE EmptyTree
         IN [files |-> fish @@ copied,
             status |-> IF found \ bad # {} \/ (".local/share/fish" \in h /\ treeok)
                        THEN "ok" ELSE "skip"]

\* cloud credential directories: archive name and source directory
CloudDirs == {<<"aws.tar.gz", ".aws">>, <<"azure.tar.gz", ".azure">>,
              <<"gcloud.tar.gz", ".config/gcloud">>}

\* io: outcome of the tar block of each directory that exists
backup_cloud_creds(h, dry, io) ==
    LET present == {d \in CloudDirs : d[2] \in h}
        tars == [p \in {<<"config", "cloud", d[1]>> : d \in {e \in present : io[e] # "open_fail"}}
                   |-> LET d == CHOOSE e \in present : e[1] = p[3]
                       IN IF io[d] = "ok" THEN TarBytes(d[2]) ELSE PartialTar]
        found == Cardinality({d \in present : io[d] = "ok"})
    IN IF dry THEN [files |-> EmptyTree, status |-> "ok"]
       ELSE [files |-> tars, status |-> IF found > 0 THEN "ok" ELSE "skip"]


(***************************************************************************)
(* Text: strings the code inspects character by character are sequences    *)
(* of one-character strings.                                               *)
(***************************************************************************)
Letters == {"a", "b", "c", "d", "e", "f", "g", "h", "i", "j", "k", "l", "m", "n", "o", "p",
            "q", "r", "s", "t", "u", "v", "w", "x", "y", "z",
            "A", "B", "C", "D", "E", "F", "G", "H", "I", "J", "K", "L", "M", "N", "O", "P",
            "Q", "R", "S", "T", "U", "V", "W", "X", "Y", "Z"}
Digits == {"0", "1", "2", "3", "4", "5", "6", "7", "8", "9"}

\* the character class [a-zA-Z0-9._-]
AllowedChars == Letters \cup Digits \cup {".", "_", "-"}

\* re.sub(r"[^a-zA-Z0-9._-]", "", name)
RemoveDisallowed(name) == SelectSeq(name, LAMBDA c : c \in AllowedChars)

\* re.sub(r"\.\.+", ".", name): every maximal run of two or more dots becomes one dot
CollapseDots(name) ==
    LET positions == [i \in 1..Len(name) |-> i]
        \* a dot that follows a dot is inside a run and is dropped
        kept == SelectSeq(positions,
                          LAMBDA i : ~(name[i] = "." /\ i > 1 /\ name[i - 1] = "."))
    IN [k \in 1..Len(kept) |-> name[kept[k]]]

\* name[:100]
MaxNameLen == 100

\* name[:101]
Truncate_OneMore(name) ==
    IF Len(name) > MaxNameLen THEN SubSeq(name, 1, MaxNameLen + 1) ELSE name

Truncate(name) == IF Len(name) > MaxNameLen THEN SubSeq(name, 1, MaxNameLen) ELSE name

\* datetime.now().strftime('%Y%m%d-%H%M%S'): the readings of the clock in the model
Clocks == { <<"2", "0", "2", "4", "0", "1", "0", "1", "-", "0", "0", "0", "0", "0", "0">>,
            <<"2", "0", "2", "6", "1", "1", "0", "5", "-", "0", "9", "2", "5", "3", "1">> }

FallbackName(now) == <<"b", "a", "c", "k", "u", "p", "-">> \o now

sanitize_name(name, now) ==
    LET n1 == RemoveDisallowed(name)
        n2 == CollapseDots(n1)
        n3 == Truncate(n2)
    IN IF n3 = <<>> THEN FallbackName(now) ELSE n3

\* str.strip() on the typed line
RECURSIVE LStrip(_)
LStrip(t) == IF t # <<>> /\ t[1] = " " THEN LStrip(Tail(t)) ELSE t
RECURSIVE RStrip(_)
RStrip(t) == IF t # <<>> /\ t[Len(t)] = " " THEN RStrip(SubSeq(t, 1, Len(t) - 1)) ELSE t
Strip(t) == RStrip(LStrip(t))

\* a read_input that gives the empty string back when input() is interrupted
read_input_DropsDefault(typed, default, eof) ==
    IF eof THEN <<>>
    ELSE IF Strip(typed) # <<>> THEN Strip(typed) ELSE default

\* read_input: the stripped line, or the default when it is empty; eof is
\* EOFError/KeyboardInterrupt on input()
read_input(typed, default, eof) ==
    IF eof THEN default
    ELSE IF Strip(typed) # <<>> THEN Strip(typed) ELSE default

(***************************************************************************)
(* read_choice.  An answer is the line typed at the prompt; "EOF" stands   *)
(* for EOFError/KeyboardInterrupt, "sup2" for the one-character line       *)
(* U+00B2 (superscript two), for which str.isdigit() is True and int()     *)
(* raises ValueError.                                                      *)
(***************************************************************************)
Answers == {"", "EOF", "0", "1", "2", "3", "7", "x", "sup2"}

IsDigit(a) == a \in {"0", "1", "2", "3", "7", "sup2"}

\* int(result): -1 stands for ValueError
IntOf(a) ==
    CASE a = "0" -> 0 [] a = "1" -> 1 [] a = "2" -> 2 [] a = "3" -> 3 [] a = "7" -> 7
      [] OTHER -> -1

\* one pass of the "while True" loop over the answer a, with n options
read_choice(a, n) ==
    IF a = "EOF" \/ a = "" THEN [kind |-> "return", value |-> 1]
    ELSE IF IsDigit(a) /\ IntOf(a) = -1 THEN [kind |-> "raise", value |-> 0]
    ELSE IF IsDigit(a) /\ 1 <= IntOf(a) /\ IntOf(a) <= n THEN [kind |-> "return", value |-> IntOf(a)]
    ELSE [kind |-> "reprompt", value |-> 0]


RECURSIVE Join(_)
\* the str value of a character sequence
Join(t) == IF t = <<>> THEN "" ELSE t[1] \o Join(Tail(t))

(***************************************************************************)
(* calculate_checksum.  sorted() compares Path objects component by        *)
(* component; NameOrder lists the components of the model in str order.    *)
(***************************************************************************)
NameOrder == <<
    ".bash_aliases", ".bash_history", ".bash_logout", ".bash_profile", ".bashrc",
    ".gitconfig", ".profile", ".zlogin", ".zlogout", ".zprofile", ".zsh_history",
    ".zshenv", ".zshrc", "apt_manual.txt", "apt_packages.txt", "aws.tar.gz",
    "azure.tar.gz", "base.yml", "bash", "bash-host1-20240101", "brew_cask.txt", "brew_formula.txt",
    "brew_leaves.txt", "cfg-host3-20240301", "cloud", "conda", "config", "fish", "fish_config.tar.gz",
    "fish_history", "gcloud.tar.gz", "history", "manifest.json", "ml.yml",
    "ohmyzsh.tar.gz", "old.txt", "packages", "pacman_aur.txt", "pacman_packages.txt",
    "rpm_packages.txt", "shells", "ssh", "ssh_backup.tar.gz", "starship.toml", "zsh",
    "zsh-host2-20240215" >>

Rank(n) == CHOOSE i \in 1..Len(NameOrder) : NameOrder[i] = n

RECURSIVE PathLess(_, _)
PathLess(p, q) ==
    IF p = <<>> THEN q # <<>>
    ELSE IF q = <<>> THEN FALSE
    ELSE IF p[1] = q[1] THEN PathLess(Tail(p), Tail(q))
    ELSE Rank(p[1]) < Rank(q[1])

RECURSIVE InsertPath(_, _)
InsertPath(p, sortedSeq) ==
    IF sortedSeq = <<>> THEN <<p>>
    ELSE IF PathLess(p, sortedSeq[1]) THEN <<p>> \o sortedSeq
    ELSE <<sortedSeq[1]>> \o InsertPath(p, Tail(sortedSeq))

RECURSIVE SortPaths(_)
\* sorted(directory.rglob("*")) over the enumeration enum
SortPaths(enum) ==
    IF enum = <<>> THEN <<>> ELSE InsertPath(enum[1], SortPaths(Tail(enum)))

\* hashlib.sha256: an ideal hash, the digest stands for the bytes hashed;
\* a hexdigest is never the empty string
Sha256(bytes) == <<"sha256", bytes>>

RECURSIVE HashedBytes(_, _, _)
\* the bytes fed to hasher.update() over the sorted paths
HashedBytes(tree, paths, unreadable) ==
    IF paths = <<>> THEN <<>>
    ELSE LET p == paths[1]
             part == IF p[Len(p)] # "manifest.json" /\ p \notin unreadable
                     THEN tree[p] ELSE <<>>
         IN part \o HashedBytes(tree, Tail(paths), unreadable)

\* enum: the order in which rglob yields the files of the tree;
\* unreadable: files whose read_bytes() raises
calculate_checksum(tree, enum, unreadable) ==
    Sha256(HashedBytes(tree, SortPaths(enum), unreadable))

RECURSIVE AnEnumeration(_)
\* some order in which rglob may yield the paths S
AnEnumeration(S) ==
    IF S = {} THEN <<>>
    ELSE LET p == CHOOSE x \in S : TRUE IN <<p>> \o AnEnumeration(S \ {p})

(***************************************************************************)
(* Manifest: create_manifest / read_manifest.  json.dump writes the dict   *)
(* as a list of key/value members in insertion order; json.load rebuilds   *)
(* the dict by key.                                                        *)
(***************************************************************************)
VERSION == "2.0.0"

JsonDump(m) ==
    << <<"version", m.version>>,
       <<"created", m.created>>,
       <<"backup_name", m.backup_name>>,
       <<"backup_type", m.backup_type>>,
       <<"source", << <<"user", m.source.user>>,
                      <<"hostname", m.source.hostname>>,
                      <<"os", m.source.os>>,
                      <<"arch", m.source.arch>>,
                      <<"package_manager", m.source.package_manager>>,
                      <<"default_shell", m.source.default_shell>> >> >>,
       <<"shells", m.shells>>,
       <<"checksum", m.checksum>> >>

Member(text, key) == text[CHOOSE i \in 1..Len(text) : text[i][1] = key][2]

JsonLoad(text) ==
    [version |-> Member(text, "version"),
     created |-> Member(text, "created"),
     backup_name |-> Member(text, "backup_name"),
     backup_type |-> Member(text, "backup_type"),
     source |-> [user |-> Member(Member(text, "source"), "user"),
                 hostname |-> Member(Member(text, "source"), "hostname"),
                 os |-> Member(Member(text, "source"), "os"),
                 arch |-> Member(Member(text, "source"), "arch"),
                 package_manager |-> Member(Member(text, "source"), "package_manager"),
                 default_shell |-> Member(Member(text, "source"), "default_shell")],
     shells |-> Member(text, "shells"),
     checksum |-> Member(text, "checksum")]

\* a manifest.json on disk: absent, complete JSON text, or a file that
\* open(path, "w") truncated before json.dump raised
NoFile == [kind |-> "absent", text |-> <<>>]
PartialFile == [kind |-> "partial", text |-> <<>>]
TextFile(t) == [kind |-> "text", text |-> t]

\* outcomes of a guarded "with open(manifest_path, 'w'): json.dump(...)"
WriteOutcomes == {"ok", "open_fail", "dump_fail"}

WriteJson(old, m, w) ==
    CASE w = "ok" -> TextFile(JsonDump(m))
      [] w = "dump_fail" -> PartialFile
      [] OTHER -> old

\* args: the parameters backup_name, backup_type, shells, os_name, arch, pm;
\* sys: USER, hostname, default shell and clock; io: outcomes of the two
\* writes and the enumeration order of rglob
create_manifest(dest, old, args, dry, sys, io) ==
    IF dry THEN [ret |-> TRUE, file |-> old]
    ELSE LET manifest == [version |-> VERSION,
                          created |-> sys.now,
                          backup_name |-> args.backup_name,
                          backup_type |-> args.backup_type,
                          source |-> [user |-> sys.user,
                                      hostname |-> sys.hostname,
                                      os |-> args.os_name,
                                      arch |-> args.arch,
                                      package_manager |-> args.pm,
                                      default_shell |-> sys.default_shell],
                          shells |-> args.shells,
                          checksum |-> <<>>]
             first == WriteJson(old, manifest, io.w1)
             checksum == calculate_checksum(dest, io.enum, {})
             second == WriteJson(first, [manifest EXCEPT !.checksum = checksum], io.w2)
         IN IF io.w1 # "ok" THEN [ret |-> FALSE, file |-> first]
            ELSE [ret |-> TRUE, file |-> second]

\* None when the file cannot be opened or parsed
read_manifest(file) ==
    IF file.kind = "text" THEN [ok |-> TRUE, value |-> JsonLoad(file.text)]
    ELSE [ok |-> FALSE, value |-> <<>>]


(***************************************************************************)
(* The machine and the user's answers.                                     *)
(***************************************************************************)
PackageManagerProbe == <<"apt", "dnf", "yum", "pacman", "zypper", "apk">>

\* the machines a run starts on: operating system and installed commands
Machines ==
    {[os_name |-> "linux", commands |-> d \cup tools] :
        d \in SUBSET Deps, tools \in {{"bash", "zsh"}, {"fish", "bash", "zsh", "apt"}}}

command_exists(m, c) == c \in m.commands

RECURSIVE FirstInstalled(_, _)
FirstInstalled(m, probe) ==
    IF probe = <<>> THEN "unknown"
    ELSE IF command_exists(m, probe[1]) THEN probe[1]
    ELSE FirstInstalled(m, Tail(probe))

detect_package_manager(m) ==
    IF m.os_name = "macos" THEN "brew" ELSE FirstInstalled(m, PackageManagerProbe)

\* USER, platform.node(), basename of SHELL, platform.machine()
SysUser == "alice"
SysHostname == "host1"
SysShell == "bash"
SysArch == "amd64"

\* f"{default_shell}-{hostname}-{date_stamp}" with the hostname filtered
DefaultName == <<"b", "a", "s", "h", "-", "h", "o", "s", "t", "1", "-",
                 "2", "0", "2", "4", "0", "1", "0", "1">>

\* lines typed at the "Backup name" prompt
TypedNames == { <<>> }

\* answers to the "Repository URL" prompt
Urls == {"", "git@github.com:u/r.git", "git@github.com/u/r.git",
         "https://github.com/u/r.git"}

\* the characters of the URLs of the model
UrlText ==
    ("" :> <<>>)
    @@ ("git@github.com:u/r.git" :> <<"g", "i", "t", "@", "g", "i", "t", "h", "u", "b", ".", "c", "o", "m", ":", "u",
                "/", "r", ".", "g", "i", "t">>)
    @@ ("git@github.com/u/r.git" :> <<"g", "i", "t", "@", "g", "i", "t", "h", "u", "b", ".", "c", "o", "m", "/", "u",
                "/", "r", ".", "g", "i", "t">>)
    @@ ("https://github.com/u/r.git" :> <<"h", "t", "t", "p", "s", ":", "/", "/", "g", "i", "t", "h", "u", "b", ".", "c",
                "o", "m", "/", "u", "/", "r", ".", "g", "i", "t">>)
    @@ ("git@gitlab.com:u/r.git" :> <<"g", "i", "t", "@", "g", "i", "t", "l", "a", "b", ".", "c", "o", "m", ":", "u",
                "/", "r", ".", "g", "i", "t">>)
    @@ ("git@:u/r.git" :> <<"g", "i", "t", "@", ":", "u", "/", "r", ".", "g", "i", "t">>)
    @@ ("GIT@github.com:u/r.git" :> <<"G", "I", "T", "@", "g", "i", "t", "h", "u", "b", ".", "c", "o", "m", ":", "u",
                "/", "r", ".", "g", "i", "t">>)
    @@ ("ssh://git@github.com:22/u/r.git" :> <<"s", "s", "h", ":", "/", "/", "g", "i", "t", "@", "g", "i", "t", "h", "u", "b",
                ".", "c", "o", "m", ":", "2", "2", "/", "u", "/", "r", ".", "g", "i", "t">>)

GitAt == <<"g", "i", "t", "@">>

\* repo_url.startswith("git@")
StartsWithGitAt(u) ==
    Len(UrlText[u]) >= Len(GitAt) /\ SubSeq(UrlText[u], 1, Len(GitAt)) = GitAt

\* re.match(r"git@([^:]+):", repo_url): "git@" at the start, one or more
\* characters other than a colon, then a colon
MatchesGitAtHost(u) ==
    /\ StartsWithGitAt(u)
    /\ \E k \in (Len(GitAt) + 2)..Len(UrlText[u]) :
          /\ UrlText[u][k] = ":"
          /\ \A j \in (Len(GitAt) + 1)..(k - 1) : UrlText[u][j] # ":"

Categories == {"fish", "bash", "zsh", "packages", "starship", "git_config", "ssh",
               "conda", "history", "cloud"}

NoInclude == [ssh |-> FALSE, git_cfg |-> FALSE, history |-> FALSE,
              cloud_creds |-> FALSE, conda |-> TRUE]

\* what "git clone" finds under backups/ of the remote: top-level
\* directories, files (by path below backups/), manifests by directory
NoManifests == [d \in {} |-> NoFile]
NoWorkcopy ==
    [exists |-> FALSE, dirs |-> {}, tree |-> EmptyTree, manifests |-> NoManifests,
     repo |-> "none"]

\* an earlier full backup of a zsh machine, as it lies below backups/
FullBackupFiles ==
    { <<"shells", "fish", "fish_config.tar.gz">>, <<"shells", "zsh", ".zshrc">>,
      <<"shells", "zsh", "ohmyzsh.tar.gz">>, <<"config", "starship.toml">>,
      <<"config", ".gitconfig">>, <<"ssh", "ssh_backup.tar.gz">>, <<"conda", "ml.yml">>,
      <<"history", ".zsh_history">>, <<"history", "fish", "fish_history">>,
      <<"config", "cloud", "aws.tar.gz">> }

RepoContents ==
    { [exists |-> TRUE, dirs |-> {}, tree |-> EmptyTree, manifests |-> NoManifests,
       repo |-> "git_dir"],
      [exists |-> TRUE,
       dirs |-> {"zsh-host2-20240215", "bash-host1-20240101", "cfg-host3-20240301"},
       tree |-> (<<"bash-host1-20240101", "shells", "bash", ".bash_profile">> :> <<9>>)
                @@ (<<"cfg-host3-20240301", "config", ".gitconfig">> :> <<4>>)
                @@ [p \in {<<"zsh-host2-20240215">> \o q : q \in FullBackupFiles} |-> <<8>>]
                @@ (<<"old.txt">> :> <<9>>),
       manifests |-> NoManifests, repo |-> "git_dir"] }

(***************************************************************************)
(* Initial state: cli.main has set the flags and dispatched the            *)
(* subcommand; nothing has been printed or written yet.                    *)
(***************************************************************************)
IdleChoice == [options |-> <<>>, errors |-> 0, console |-> "none"]
IdleSn == [input |-> <<>>, now |-> <<>>, output |-> <<>>, done |-> FALSE]
IdleCk == [tree |-> EmptyTree, digest |-> <<>>, prev |-> <<>>, op |-> "none"]
IdleRs == [available_shells |-> <<>>, default_shell |-> "", idx |-> 1,
           written |-> {}, sys |-> {}]
IdleFn == [op |-> "none"]

OrchInit ==
    /\ pc = "CheckDependencies"
    /\ cmd \in {"backup", "restore"}
    /\ dry_run \in BOOLEAN
    /\ home \in Homes
    /\ env \in Machines
    /\ repo_url = "unread"
    /\ backup_name = ""
    /\ is_shareable = FALSE
    /\ include = NoInclude
    /\ shells_to_backup = <<>>
    /\ shell_idx = 1
    /\ invoked = <<>>
    /\ status = [c \in Categories |-> "none"]
    /\ staged = EmptyTree
    /\ stagedExists = FALSE
    /\ tempDir = FALSE
    /\ manifestFile = NoFile
    /\ manifestRet = "none"
    /\ gitOps = <<>>
    /\ workcopy = NoWorkcopy
    /\ reported = {}
    /\ exitCode = -1
    /\ faults = 0
    /\ choice = IdleChoice
    /\ rs = IdleRs

Init == OrchInit /\ sn = IdleSn /\ ck = IdleCk /\ fn = IdleFn

\* raise SystemExit(code)
Exit(code) == pc' = "Exiting" /\ exitCode' = code

(***************************************************************************)
(* do_backup / do_restore: CheckDependencies and the repository URL.       *)
(***************************************************************************)
MissingDeps(m) == {d \in Deps : ~command_exists(m, d)}

\* curl is not looked for
check_dependencies_NoCurl(m) == command_exists(m, "git") /\ command_exists(m, "tar")

check_dependencies(m) == MissingDeps(m) = {}

\* lines 313-314 (backup), 345-346 (restore); print_status logs, and log()
\* creates the temporary directory
CheckDependencies ==
    /\ pc = "CheckDependencies"
    /\ tempDir' = TRUE
    /\ IF check_dependencies(env)
       THEN pc' = "CollectRepoURL" /\ UNCHANGED exitCode
       ELSE Exit(1)
    /\ UNCHANGED <<cmd, dry_run, home, env, repo_url, backup_name, is_shareable, include,
                   shells_to_backup, shell_idx, invoked, status, staged, stagedExists,
                   manifestFile, manifestRet, gitOps, workcopy, reported, faults, choice,
                   sn, ck, rs, fn>>

\* detect_os, detect_package_manager, read_input("Repository URL")
CollectRepoURL ==
    /\ pc = "CollectRepoURL"
    /\ \E u \in Urls :
          /\ repo_url' = u
          /\ IF u = "" THEN Exit(1)
             ELSE /\ pc' = IF cmd = "backup" THEN "CollectBackupName" ELSE "FetchBackups"
                  /\ UNCHANGED exitCode
    /\ UNCHANGED <<cmd, dry_run, home, env, backup_name, is_shareable, include,
                   shells_to_backup, shell_idx, invoked, status, staged, stagedExists,
                   tempDir, manifestFile, manifestRet, gitOps, workcopy, reported, faults,
                   choice, sn, ck, rs, fn>>

(***************************************************************************)
(* do_backup: the wizard.                                                  *)
(***************************************************************************)
CollectBackupName ==
    /\ pc = "CollectBackupName"
    /\ \E typed \in TypedNames, now \in Clocks :
          backup_name' = Join(sanitize_name(read_input(typed, DefaultName, FALSE), now))
    /\ pc' = "SelectBackupType"
    /\ UNCHANGED <<cmd, dry_run, home, env, repo_url, is_shareable, include,
                   shells_to_backup, shell_idx, invoked, status, staged, stagedExists,
                   tempDir, manifestFile, manifestRet, gitOps, workcopy, reported, exitCode,
                   faults, choice, sn, ck, rs, fn>>

TypeOptions == <<"Full backup (personal use)", "Shareable backup (safe to share)">>

\* the selected backup directory, backups/<name> of the working copy
BackupDir == SubTree(workcopy.tree, <<backup_name>>)

\* restore.py lines 418, 446-451
HasSshBackup(bd) == <<"ssh", "ssh_backup.tar.gz">> \in DOMAIN bd

AvailableShells(bd) ==
    LET found == SelectSeq(<<"fish", "bash", "zsh">>,
                           LAMBDA sh : \E p \in DOMAIN bd :
                                          Len(p) > 2 /\ p[1] = "shells" /\ p[2] = sh)
    IN IF found = <<>> THEN <<"bash">> ELSE found

SshOptions == <<"Restore SSH keys from backup", "Generate new SSH keys", "Skip SSH setup">>

\* the process is inside a read_choice call
ChoicePending ==
    \/ pc \in {"SelectBackupType", "SelectBackup", "SelectShell"}
    \/ pc = "SshKeys" /\ HasSshBackup(BackupDir)

\* the options of the read_choice call the process is in
ChoiceOptions ==
    CASE pc = "SelectBackupType" -> Len(TypeOptions)
      [] pc = "SshKeys" -> Len(SshOptions)
      [] pc = "SelectShell" -> Len(AvailableShells(BackupDir))
      [] OTHER -> Len(choice.options)

\* read_choice prints the error and prompts again
ChoiceReprompt ==
    /\ ChoicePending
    /\ choice.errors < MaxReprompts
    /\ \E a \in Answers :
          /\ read_choice(a, ChoiceOptions).kind = "reprompt"
          /\ choice' = [choice EXCEPT !.errors = @ + 1, !.console = "range_error"]
    /\ tempDir' = TRUE
    /\ UNCHANGED <<pc, cmd, dry_run, home, env, repo_url, backup_name, is_shareable, include,
                   shells_to_backup, shell_idx, invoked, status, staged, stagedExists,
                   manifestFile, manifestRet, gitOps, workcopy, reported, exitCode, faults,
                   sn, ck, rs, fn>>

\* int(result) raises ValueError inside read_choice: the exception is
\* caught nowhere, the interpreter prints a traceback and exits with 1
ChoiceRaises ==
    /\ ChoicePending
    /\ \E a \in Answers : read_choice(a, ChoiceOptions).kind = "raise"
    /\ choice' = [choice EXCEPT !.console = "traceback"]
    /\ Exit(1)
    /\ UNCHANGED <<cmd, dry_run, home, env, repo_url, backup_name, is_shareable, include,
                   shells_to_backup, shell_idx, invoked, status, staged, stagedExists,
                   tempDir, manifestFile, manifestRet, gitOps, workcopy, reported, faults,
                   sn, ck, rs, fn>>

\* lines 366-370
SelectBackupType ==
    /\ pc = "SelectBackupType"
    /\ \E a \in Answers :
          /\ read_choice(a, 2).kind = "return"
          /\ is_shareable' = (read_choice(a, 2).value = 2)
    /\ choice' = IdleChoice
    /\ pc' = "SelectData"
    /\ UNCHANGED <<cmd, dry_run, home, env, repo_url, backup_name, include,
                   shells_to_backup, shell_idx, invoked, status, staged, stagedExists,
                   tempDir, manifestFile, manifestRet, gitOps, workcopy, reported, exitCode,
                   faults, sn, ck, rs, fn>>

\* the shareable branch asks nothing else, yet takes SSH keys
ShareablePrompts_IncludesSsh(conda) ==
    [inc |-> [NoInclude EXCEPT !.conda = conda, !.ssh = TRUE], asked |-> {"ask_conda"}]

\* the read_yes_no prompts of the shareable branch (lines 378-392)
ShareablePrompts(conda) ==
    [inc |-> [NoInclude EXCEPT !.conda = conda], asked |-> {"ask_conda"}]

\* the read_yes_no prompts of the full branch (lines 393-400)
FullPrompts(a) ==
    [inc |-> [ssh |-> a.ssh, git_cfg |-> a.git_cfg, history |-> a.history,
              cloud_creds |-> a.cloud_creds, conda |-> a.conda],
     asked |-> {"ask_ssh", "ask_git_cfg", "ask_history", "ask_cloud_creds", "ask_conda"}]

SelectData ==
    /\ pc = "SelectData"
    /\ \E a \in [ssh : BOOLEAN, git_cfg : BOOLEAN, history : BOOLEAN,
                 cloud_creds : BOOLEAN, conda : BOOLEAN] :
          LET r == IF is_shareable THEN ShareablePrompts(a.conda) ELSE FullPrompts(a)
          IN /\ include' = r.inc
             /\ reported' = reported \cup r.asked
    /\ pc' = "SelectShells"
    /\ UNCHANGED <<cmd, dry_run, home, env, repo_url, backup_name, is_shareable,
                   shells_to_backup, shell_idx, invoked, status, staged, stagedExists,
                   tempDir, manifestFile, manifestRet, gitOps, workcopy, exitCode, faults,
                   choice, sn, ck, rs, fn>>

\* the "Backup <Shell>?" prompts answered with yes, as the terminal shows them
Confirmed(yes) == {"confirmed_" \o sh : sh \in yes}

\* every installed shell is backed up, whatever the answers
SelectedShells_AllInstalled(m, yes) == SeqOfShells({sh \in Shells : command_exists(m, sh)})

\* lines 406-415: one prompt per installed shell, in the order fish, bash, zsh
SelectedShells(m, yes) == SeqOfShells({sh \in Shells : command_exists(m, sh) /\ sh \in yes})

\* lines 402-432: shell selection, size estimate, config.setup(), mkdir
SelectShells ==
    /\ pc = "SelectShells"
    /\ \E yes \in SUBSET Shells :
          /\ yes \subseteq env.commands
          /\ shells_to_backup' = SelectedShells(env, yes)
          /\ reported' = reported \cup Confirmed(yes)
          /\ pc' = IF SelectedShells(env, yes) = <<>> THEN "Packages" ELSE "RunShells"
    /\ shell_idx' = 1
    /\ tempDir' = TRUE
    /\ stagedExists' = TRUE
    /\ UNCHANGED <<cmd, dry_run, home, env, repo_url, backup_name, is_shareable, include,
                   invoked, status, staged, manifestFile, manifestRet, gitOps, workcopy,
                   exitCode, faults, choice, sn, ck, rs, fn>>


(***************************************************************************)
(* do_backup: the category routines, lines 434-469.                        *)
(***************************************************************************)
Budget == MaxFaults - faults

Cost(io) == IF io = "ok" THEN 0 ELSE 1

\* outcomes a guarded block can have: it can fail only where it runs and
\* while the run's fault budget lasts
Outcomes(runs, all) == IF runs /\ Budget > 0 THEN all ELSE {"ok"}

BadSets(runs, found) ==
    IF runs THEN {b \in SUBSET found : Cardinality(b) <= Budget} ELSE {{}}

\* the effect of a routine call with result r on the staged tree and the console
Ran(cat, routine, r, cost) ==
    /\ staged' = r.files @@ staged
    /\ status' = [status EXCEPT ![cat] = r.status]
    /\ invoked' = Append(invoked, routine)
    /\ faults' = faults + cost
    /\ tempDir' = TRUE

\* print_status("... (excluded)", "skip")
Excluded(cat) ==
    /\ status' = [status EXCEPT ![cat] = "skip"]
    /\ tempDir' = TRUE
    /\ UNCHANGED <<staged, invoked, faults>>

\* the shell loop leaves for the step after the package lists
AfterShell_SkipsPackages ==
    /\ shell_idx' = shell_idx + 1
    /\ pc' = IF shell_idx = Len(shells_to_backup) THEN "Starship" ELSE "RunShells"

AfterShell ==
    /\ shell_idx' = shell_idx + 1
    /\ pc' = IF shell_idx = Len(shells_to_backup) THEN "Packages" ELSE "RunShells"

OrchFrame ==
    UNCHANGED <<cmd, dry_run, home, env, repo_url, backup_name, is_shareable, include,
                shells_to_backup, stagedExists, manifestFile, manifestRet, gitOps,
                workcopy, reported, exitCode, choice, sn, ck, rs, fn>>

RunFish ==
    /\ pc = "RunShells" /\ shells_to_backup[shell_idx] = "fish"
    /\ \E io \in Outcomes(".config/fish" \in home /\ ~dry_run, TarOutcomes) :
          Ran("fish", "backup_fish", backup_fish(home, dry_run, io), Cost(io))
    /\ AfterShell
    /\ OrchFrame

RunBash ==
    /\ pc = "RunShells" /\ shells_to_backup[shell_idx] = "bash"
    /\ \E bad \in BadSets(~dry_run, Range(BashFiles) \cap home) :
          Ran("bash", "backup_bash", backup_bash(home, dry_run, bad), Cardinality(bad))
    /\ AfterShell
    /\ OrchFrame

RunZsh ==
    /\ pc = "RunShells" /\ shells_to_backup[shell_idx] = "zsh"
    /\ \E bad \in BadSets(~dry_run, Range(ZshFiles) \cap home) :
       \E io \in Outcomes(".oh-my-zsh" \in home /\ ~dry_run /\ Cardinality(bad) < Budget,
                          TarOutcomes) :
          Ran("zsh", "backup_zsh", backup_zsh(home, dry_run, bad, io),
              Cardinality(bad) + Cost(io))
    /\ AfterShell
    /\ OrchFrame

RunPackages ==
    /\ pc = "Packages"
    /\ LET pm == detect_package_manager(env)
       IN \E failed \in BadSets(~dry_run, Range(PkgCommands(pm))) :
             Ran("packages", "backup_packages", backup_packages(pm, dry_run, failed),
                 Cardinality(failed))
    /\ pc' = "Starship"
    /\ UNCHANGED shell_idx
    /\ OrchFrame

RunStarship ==
    /\ pc = "Starship"
    /\ \E bad \in {b \in BOOLEAN :
                     b => ".config/starship.toml" \in home /\ ~dry_run /\ Budget > 0} :
          Ran("starship", "backup_starship", backup_starship(home, dry_run, bad),
              IF bad THEN 1 ELSE 0)
    /\ pc' = "GitConfig"
    /\ UNCHANGED shell_idx
    /\ OrchFrame

RunGitConfig ==
    /\ pc = "GitConfig"
    /\ IF include.git_cfg
       THEN \E bad \in {b \in BOOLEAN : b => ".gitconfig" \in home /\ ~dry_run /\ Budget > 0} :
               Ran("git_config", "backup_git_config", backup_git_config(home, dry_run, bad),
                   IF bad THEN 1 ELSE 0)
       ELSE Excluded("git_config")
    /\ pc' = "Ssh"
    /\ UNCHANGED shell_idx
    /\ OrchFrame

RunSsh ==
    /\ pc = "Ssh"
    /\ IF include.ssh
       THEN \E io \in Outcomes(".ssh" \in home /\ ~dry_run, TarOutcomes) :
               Ran("ssh", "backup_ssh", backup_ssh(home, dry_run, io), Cost(io))
       ELSE Excluded("ssh")
    /\ pc' = "Conda"
    /\ UNCHANGED shell_idx
    /\ OrchFrame

RunConda ==
    /\ pc = "Conda"
    /\ IF ~include.conda THEN Excluded("conda")
       ELSE IF CondaBins \cap home = {} \/ dry_run
       THEN Ran("conda", "backup_conda", backup_conda(home, dry_run, TRUE, {}), 0)
       ELSE \/ /\ Budget > 0
               /\ Ran("conda", "backup_conda", backup_conda(home, dry_run, FALSE, {}), 1)
            \/ \E listing \in SUBSET CondaEnvs : \E exported \in SUBSET listing :
                  /\ Cardinality(listing \ exported) <= Budget
                  /\ Ran("conda", "backup_conda", backup_conda(home, dry_run, TRUE, exported),
                         Cardinality(listing \ exported))
    /\ pc' = "History"
    /\ UNCHANGED shell_idx
    /\ OrchFrame

RunHistory ==
    /\ pc = "History"
    /\ IF include.history
       THEN \E bad \in BadSets(~dry_run, {".bash_history", ".zsh_history"} \cap home) :
            \E treeok \in {b \in BOOLEAN :
                             ~b => /\ ".local/share/fish" \in home /\ ~dry_run
                                   /\ Cardinality(bad) < Budget} :
               Ran("history", "backup_history", backup_history(home, dry_run, bad, treeok),
                   Cardinality(bad) + (IF treeok THEN 0 ELSE 1))
       ELSE Excluded("history")
    /\ pc' = "Cloud"
    /\ UNCHANGED shell_idx
    /\ OrchFrame

CloudPresent(h) == {d \in CloudDirs : d[2] \in h}

CloudCost(io) == Cardinality({d \in DOMAIN io : io[d] # "ok"})

RunCloud ==
    /\ pc = "Cloud"
    /\ IF include.cloud_creds
       THEN \E io \in [CloudPresent(home) -> TarOutcomes] :
               /\ CloudCost(io) <= (IF dry_run THEN 0 ELSE Budget)
               /\ Ran("cloud", "backup_cloud_creds", backup_cloud_creds(home, dry_run, io),
                      CloudCost(io))
       ELSE Excluded("cloud")
    /\ pc' = "BuildManifest"
    /\ UNCHANGED shell_idx
    /\ OrchFrame

(***************************************************************************)
(* do_backup: manifest and transport, lines 474-517.                       *)
(***************************************************************************)
Created == "2024-01-01T00:00:00Z"

ManifestArgs ==
    [backup_name |-> backup_name,
     backup_type |-> IF is_shareable THEN "shareable" ELSE "full",
     shells |-> shells_to_backup,
     os_name |-> env.os_name, arch |-> SysArch, pm |-> detect_package_manager(env)]

SysInfo == [user |-> SysUser, hostname |-> SysHostname, default_shell |-> SysShell,
            now |-> Created]

BuildManifest ==
    /\ pc = "BuildManifest"
    /\ \E w1 \in Outcomes(~dry_run, WriteOutcomes) :
       \E w2 \in Outcomes(~dry_run /\ w1 = "ok", WriteOutcomes) :
          LET r == create_manifest(staged, manifestFile, ManifestArgs, dry_run, SysInfo,
                                   [w1 |-> w1, w2 |-> w2,
                                    enum |-> AnEnumeration(DOMAIN staged)])
          IN /\ manifestFile' = r.file
             /\ manifestRet' = IF r.ret THEN "True" ELSE "False"
             /\ faults' = faults + Cost(w1) + Cost(w2)
    /\ tempDir' = TRUE
    /\ pc' = IF StartsWithGitAt(repo_url) THEN "VerifySsh" ELSE "Clone"
    /\ UNCHANGED <<cmd, dry_run, home, env, repo_url, backup_name, is_shareable, include,
                   shells_to_backup, shell_idx, invoked, status, staged, stagedExists,
                   gitOps, workcopy, reported, exitCode, choice, sn, ck, rs, fn>>


\* "Your backup is saved locally at: {backup_dir}"; the path names a
\* directory that exists, or one that is gone
LocalPathReport(exists) == {IF exists THEN "local_path" ELSE "stale_local_path"}

\* the push failure is reported without the local path
PushFailureReport_NoPath(exists) == {"push_failed"}

\* lines 510-516
PushFailureReport(exists) == {"push_failed"} \cup LocalPathReport(exists)

\* str.lower() on the characters of the model
UpperCase == <<"A", "B", "C", "D", "E", "F", "G", "H", "I", "J", "K", "L", "M",
               "N", "O", "P", "Q", "R", "S", "T", "U", "V", "W", "X", "Y", "Z">>
LowerCase == <<"a", "b", "c", "d", "e", "f", "g", "h", "i", "j", "k", "l", "m",
               "n", "o", "p", "q", "r", "s", "t", "u", "v", "w", "x", "y", "z">>

lower(t) ==
    [i \in 1..Len(t) |->
        IF t[i] \in Range(UpperCase) THEN LowerCase[IndexOf(UpperCase, t[i])] ELSE t[i]]

\* pat in t
Contains(t, pat) ==
    \E i \in 1..(Len(t) - Len(pat) + 1) : SubSeq(t, i, i + Len(pat) - 1) = pat

SuccessfullyAuthenticated ==
    <<"s", "u", "c", "c", "e", "s", "s", "f", "u", "l", "l", "y", " ",
      "a", "u", "t", "h", "e", "n", "t", "i", "c", "a", "t", "e", "d">>

HiSpace == <<"h", "i", " ">>

\* a probe that counts as a greeting only when ssh exited with zero
SshGreeted_NeedsExitZero(rc, out, err) ==
    /\ rc = 0
    /\ \/ Contains(lower(out \o err), SuccessfullyAuthenticated)
       \/ Contains(lower(out \o err), HiSpace)

\* core.py 415-420: the exit status of ssh is dropped, stdout and stderr are joined
SshGreeted(rc, out, err) ==
    \/ Contains(lower(out \o err), SuccessfullyAuthenticated)
    \/ Contains(lower(out \o err), HiSpace)

\* the probe's output is not inspected
verify_ssh_connection_AlwaysTrue(u, greeted) == TRUE

\* verify_ssh_connection: True without a probe unless the URL is git@host:...,
\* else whether the probe's output greets the user
verify_ssh_connection(u, greeted) == IF MatchesGitAtHost(u) THEN greeted ELSE TRUE

\* backup lines 483-488, restore lines 371-373
VerifySsh ==
    /\ pc = "VerifySsh"
    /\ tempDir' = TRUE
    /\ \E greeted \in {b \in BOOLEAN : ~b => MatchesGitAtHost(repo_url) /\ Budget > 0} :
          /\ gitOps' = IF MatchesGitAtHost(repo_url)
                       THEN Append(gitOps, IF greeted THEN "ssh_greeted" ELSE "ssh_rejected")
                       ELSE gitOps
          /\ faults' = faults + (IF greeted THEN 0 ELSE 1)
          /\ IF verify_ssh_connection(repo_url, greeted)
             THEN pc' = "Clone" /\ UNCHANGED <<reported, exitCode>>
             ELSE
               /\ Exit(1)
               /\ reported' = IF cmd = "backup"
                              THEN reported \cup LocalPathReport(stagedExists)
                              ELSE reported
    /\ UNCHANGED <<cmd, dry_run, home, env, repo_url, backup_name, is_shareable, include,
                   shells_to_backup, shell_idx, invoked, status, staged, stagedExists,
                   manifestFile, manifestRet, workcopy, choice, sn, ck, rs, fn>>

\* a clone_repo that reports success whatever git clone returned
clone_repo_IgnoresExit(dry, rc) == TRUE

\* clone_repo: True without cloning in dry-run, else whether git clone exited zero
clone_repo(dry, rc) == dry \/ rc = 0

\* a clone step that fetches the repository in dry-run as well
Clone_ClonesInDryRun ==
    /\ pc = "Clone"
    /\ tempDir' = TRUE
    /\ \E rc \in {r \in {0, 128} : r # 0 => ~dry_run /\ Budget > 0} :
          /\ gitOps' = Append(gitOps, "clone")
          /\ faults' = faults + (IF rc = 0 THEN 0 ELSE 1)
          /\ IF clone_repo(dry_run, rc)
             THEN /\ \E content \in RepoContents : workcopy' = content
                  /\ pc' = IF cmd = "backup" THEN "Copy" ELSE "ListBackups"
                  /\ UNCHANGED exitCode
             ELSE /\ UNCHANGED workcopy
                  /\ IF cmd = "backup" THEN pc' = "InitRepo" /\ UNCHANGED exitCode
                     ELSE Exit(1)
    /\ UNCHANGED <<cmd, dry_run, home, env, repo_url, backup_name, is_shareable, include,
                   shells_to_backup, shell_idx, invoked, status, staged, stagedExists,
                   manifestFile, manifestRet, reported, choice, sn, ck, rs, fn>>

\* backup lines 490-492, restore lines 375-378
Clone ==
    /\ pc = "Clone"
    /\ tempDir' = TRUE
    /\ \E rc \in {r \in {0, 128} : r # 0 => ~dry_run /\ Budget > 0} :
          /\ gitOps' = IF dry_run THEN gitOps ELSE Append(gitOps, "clone")
          /\ faults' = faults + (IF rc = 0 THEN 0 ELSE 1)
          /\ IF clone_repo(dry_run, rc)
             THEN /\ IF dry_run THEN UNCHANGED workcopy
                     ELSE \E content \in RepoContents : workcopy' = content
                  /\ pc' = IF cmd = "backup" THEN "Copy" ELSE "ListBackups"
                  /\ UNCHANGED exitCode
             ELSE /\ UNCHANGED workcopy
                  /\ IF cmd = "backup" THEN pc' = "InitRepo" /\ UNCHANGED exitCode
                     ELSE Exit(1)
    /\ UNCHANGED <<cmd, dry_run, home, env, repo_url, backup_name, is_shareable, include,
                   shells_to_backup, shell_idx, invoked, status, staged, stagedExists,
                   manifestFile, manifestRet, reported, choice, sn, ck, rs, fn>>

\* init_repo: mkdir dest_dir, "git init" (run without -C, in the current
\* directory), then "git -C dest_dir remote add origin url" unchecked
init_repo(rc) == rc = 0

\* the repository "git -C dest_dir" finds after "git init" ran in the current
\* directory: dest_dir is a new directory below the temp directory and holds
\* none; the one of the current directory is found when that directory
\* encloses the temp directory
ReposAfterInit == {"none", "enclosing"}

\* backup lines 492-495
InitRepo ==
    /\ pc = "InitRepo"
    /\ \E rc \in {r \in {0, 1} : r # 0 => Budget > 0} :
          /\ faults' = faults + rc
          /\ \E found \in IF init_repo(rc) THEN ReposAfterInit ELSE {"none"} :
                workcopy' = [workcopy EXCEPT !.exists = TRUE, !.repo = found]
          /\ IF init_repo(rc)
             THEN /\ gitOps' = gitOps \o <<"init_cwd", "remote_add_origin">>
                  /\ pc' = "Copy"
                  /\ UNCHANGED <<exitCode, tempDir>>
             ELSE /\ gitOps' = Append(gitOps, "init_cwd")
                  /\ tempDir' = TRUE
                  /\ Exit(1)
    /\ UNCHANGED <<cmd, dry_run, home, env, repo_url, backup_name, is_shareable, include,
                   shells_to_backup, shell_idx, invoked, status, staged, stagedExists,
                   manifestFile, manifestRet, reported, choice, sn, ck, rs, fn>>

\* top-level directories of backup_dir: lines 431-432 and backup_history's mkdir
StagedTopDirs ==
    {"shells", "packages", "config", "conda", "ssh"}
        \cup (IF "backup_history" \in Range(invoked) THEN {"history"} ELSE {})

\* shutil.copytree(backup_dir, backups_dest / name, dirs_exist_ok=True):
\* files are written over what the destination holds, nothing is removed
CopyTree(wc, name, tree, manifest, topdirs) ==
    LET prefix == IF name = "." THEN <<>> ELSE <<name>>
        key == IF name = "." THEN "" ELSE name
        copied == [p \in {prefix \o q : q \in DOMAIN tree} |->
                      tree[SubSeq(p, Len(prefix) + 1, Len(p))]]
    IN [exists |-> TRUE,
        dirs |-> wc.dirs \cup (IF name = "." THEN topdirs ELSE {name}),
        tree |-> copied @@ wc.tree,
        manifests |-> IF manifest.kind = "absent" THEN wc.manifests
                      ELSE (key :> manifest) @@ wc.manifests,
        repo |-> wc.repo]

\* backup lines 497-505
Copy ==
    /\ pc = "Copy"
    /\ gitOps' = Append(gitOps, "copy")
    /\ tempDir' = TRUE
    /\ \/ /\ workcopy' = CopyTree(workcopy, backup_name, staged, manifestFile, StagedTopDirs)
          /\ status' = status
          /\ pc' = "Push"
          /\ UNCHANGED <<exitCode, faults>>
       \/ /\ Budget > 0
          /\ faults' = faults + 1
          /\ workcopy' = [workcopy EXCEPT !.exists = TRUE]
          /\ status' = status
          /\ Exit(1)
    /\ UNCHANGED <<cmd, dry_run, home, env, repo_url, backup_name, is_shareable, include,
                   shells_to_backup, shell_idx, invoked, staged, stagedExists,
                   manifestFile, manifestRet, reported, choice, sn, ck, rs, fn>>

\* outcomes of the git commands of push_to_repo
PushOutcomes ==
    [add : {"ok", "fail"}, commit : {"ok", "fail"}, staged_diff : BOOLEAN,
     main : {"ok", "uptodate", "fail"}, master : {"ok", "uptodate", "fail"}]

\* a push_to_repo that gives up when the commit fails
push_to_repo_StopsOnCommitFailure(dry, io) ==
    IF dry THEN [ret |-> TRUE, ops |-> <<>>]
    ELSE IF io.add # "ok" THEN [ret |-> FALSE, ops |-> <<"add">>]
    ELSE IF io.commit # "ok" THEN [ret |-> FALSE, ops |-> <<"add", "commit", "diff_cached">>]
    ELSE IF io.main # "fail" THEN [ret |-> TRUE, ops |-> <<"add", "commit", "push_main">>]
    ELSE [ret |-> io.master # "fail", ops |-> <<"add", "commit", "push_main", "push_master">>]

\* push_to_repo: the result and the git commands run
push_to_repo(dry, io) ==
    IF dry THEN [ret |-> TRUE, ops |-> <<>>]
    ELSE IF io.add # "ok" THEN [ret |-> FALSE, ops |-> <<"add">>]
    ELSE LET committed == <<"add", "commit">> \o
                              (IF io.commit # "ok" THEN <<"diff_cached">> ELSE <<>>)
         IN IF io.main # "fail"
            THEN [ret |-> TRUE, ops |-> committed \o <<"push_main">>]
            ELSE [ret |-> io.master # "fail",
                  ops |-> committed \o <<"push_main", "push_master">>]

\* backup lines 507-531; a normal return ends the process with status 0
Push ==
    /\ pc = "Push"
    /\ tempDir' = TRUE
    /\ LET \* "git -C repo_dir add -A" fails where repo_dir is in no repository
           norepo == ~dry_run /\ workcopy.repo = "none"
           possible == {io \in PushOutcomes : norepo => io.add = "fail"}
       IN \E ret \in {push_to_repo(dry_run, io).ret : io \in possible} :
          LET r == [ret |-> ret]
          IN /\ r.ret \/ norepo \/ Budget > 0
             /\ faults' = faults + (IF r.ret \/ norepo THEN 0 ELSE 1)
             /\ gitOps' = IF dry_run THEN gitOps ELSE Append(gitOps, "push")
             /\ IF r.ret
                THEN /\ reported' = reported \cup {"backup_complete"}
                     /\ Exit(0)
                ELSE /\ reported' = reported \cup PushFailureReport(stagedExists)
                     /\ Exit(1)
    /\ UNCHANGED <<cmd, dry_run, home, env, repo_url, backup_name, is_shareable, include,
                   shells_to_backup, shell_idx, invoked, status, staged, stagedExists,
                   manifestFile, manifestRet, workcopy, choice, sn, ck, rs, fn>>

\* an exit hook that leaves the directory where it is
cleanup_KeepsDirectory(exists) == exists

\* cleanup(), registered with atexit: removes config.temp_dir, which holds
\* the log, the staged backup and the working copy
cleanup(exists) == FALSE

AtExit ==
    /\ pc = "Exiting"
    /\ pc' = "Terminated"
    /\ tempDir' = cleanup(tempDir)
    /\ stagedExists' = (stagedExists /\ cleanup(tempDir))
    /\ staged' = EmptyTree
    /\ manifestFile' = NoFile
    /\ workcopy' = NoWorkcopy
    /\ UNCHANGED <<cmd, dry_run, home, env, repo_url, backup_name, is_shareable, include,
                   shells_to_backup, shell_idx, invoked, status, manifestRet, gitOps,
                   reported, exitCode, faults, choice, sn, ck, rs, fn>>

(***************************************************************************)
(* do_restore up to the confirmation, lines 365-413.                       *)
(***************************************************************************)
\* config.setup(), lines 368-373
FetchBackups ==
    /\ pc = "FetchBackups"
    /\ tempDir' = TRUE
    /\ pc' = IF StartsWithGitAt(repo_url) THEN "VerifySsh" ELSE "Clone"
    /\ UNCHANGED <<cmd, dry_run, home, env, repo_url, backup_name, is_shareable, include,
                   shells_to_backup, shell_idx, invoked, status, staged, stagedExists,
                   manifestFile, manifestRet, gitOps, workcopy, reported, exitCode, faults,
                   choice, sn, ck, rs, fn>>

RECURSIVE InsertName(_, _)
InsertName(n, sortedSeq) ==
    IF sortedSeq = <<>> THEN <<n>>
    ELSE IF Rank(n) < Rank(sortedSeq[1]) THEN <<n>> \o sortedSeq
    ELSE <<sortedSeq[1]>> \o InsertName(n, Tail(sortedSeq))

RECURSIVE SortNames(_)
\* sorted([...]) over a list of names
SortNames(names) ==
    IF names = <<>> THEN <<>> ELSE InsertName(names[1], SortNames(Tail(names)))

\* lines 380-383: the directories directly below backups/, sorted
ListedBackups(wc) == SortNames(AnEnumeration(wc.dirs))

\* lines 380-389
ListBackups ==
    /\ pc = "ListBackups"
    /\ tempDir' = TRUE
    /\ IF ListedBackups(workcopy) = <<>>
       THEN Exit(1) /\ UNCHANGED choice
       ELSE /\ choice' = [IdleChoice EXCEPT !.options = ListedBackups(workcopy)]
            /\ pc' = "SelectBackup"
            /\ UNCHANGED exitCode
    /\ UNCHANGED <<cmd, dry_run, home, env, repo_url, backup_name, is_shareable, include,
                   shells_to_backup, shell_idx, invoked, status, staged, stagedExists,
                   manifestFile, manifestRet, gitOps, workcopy, reported, faults, sn, ck, rs, fn>>

\* lines 394-398: backups[backup_choice - 1]
SelectBackup ==
    /\ pc = "SelectBackup"
    /\ \E a \in Answers :
          /\ read_choice(a, Len(choice.options)).kind = "return"
          /\ backup_name' = choice.options[read_choice(a, Len(choice.options)).value]
    /\ choice' = [choice EXCEPT !.console = "selected"]
    /\ tempDir' = TRUE
    /\ pc' = "ConfirmContinue"
    /\ UNCHANGED <<cmd, dry_run, home, env, repo_url, is_shareable, include,
                   shells_to_backup, shell_idx, invoked, status, staged, stagedExists,
                   manifestFile, manifestRet, gitOps, workcopy, reported, exitCode, faults,
                   sn, ck, rs, fn>>

\* a cancellation that prints the message and goes on
CancelRestore_GoesOn ==
    /\ reported' = reported \cup {"restore_cancelled"}
    /\ pc' = "SshKeys" /\ UNCHANGED exitCode

\* lines 412-413: "Restore cancelled.", raise SystemExit(0)
CancelRestore ==
    /\ reported' = reported \cup {"restore_cancelled"}
    /\ Exit(0)

\* lines 400-413: manifest summary, then "Continue with restore?"
ConfirmContinue ==
    /\ pc = "ConfirmContinue"
    /\ \E yes \in BOOLEAN :
          IF yes
          THEN /\ pc' = "SshKeys"
               /\ reported' = reported \cup {"restore_confirmed"}
               /\ UNCHANGED exitCode
          ELSE CancelRestore
    /\ choice' = IdleChoice
    /\ UNCHANGED <<cmd, dry_run, home, env, repo_url, backup_name, is_shareable, include,
                   shells_to_backup, shell_idx, invoked, status, staged, stagedExists,
                   tempDir, manifestFile, manifestRet, gitOps, workcopy, faults,
                   sn, ck, rs, fn>>

(***************************************************************************)
(* Routines of restore.py.  bd is the selected backup directory (files by  *)
(* path below it), dry is config.dry_run, the remaining arguments are the  *)
(* outcomes of file operations and sub-commands.  Each gives the entries   *)
(* written under config.home, the changes made to the system, the severity *)
(* of the status line printed and whether an exception left the routine.   *)
(***************************************************************************)
IsDirIn(bd, d) == \E p \in DOMAIN bd : Len(p) > Len(d) /\ SubSeq(p, 1, Len(d)) = d

FilesIn(bd, d, names) == {f \in Range(names) : (d \o <<f>>) \in DOMAIN bd}

Result(written, sys, st, raised) ==
    [written |-> written, sys |-> sys, status |-> st, raised |-> raised]

\* outcomes of "dest.mkdir(...); extract or copy"
ExtractOutcomes == {"ok", "mkdir_fail", "extract_fail"}

restore_fish(bd, dry, io) ==
    IF <<"shells", "fish", "fish_config.tar.gz">> \notin DOMAIN bd THEN Result({}, {}, "skip", FALSE)
    ELSE IF dry THEN Result({}, {}, "info", FALSE)
    ELSE IF io = "mkdir_fail" THEN Result({}, {}, "none", TRUE)
    ELSE IF io = "extract_fail" THEN Result({".config"}, {}, "error", FALSE)
    ELSE Result({".config", ".config/fish"}, {}, "ok", FALSE)

restore_bash(bd, dry, bad) ==
    LET found == FilesIn(bd, <<"shells", "bash">>, BashFiles)
    IN Result(IF dry THEN {} ELSE found \ bad, {},
              IF found # {} THEN "ok" ELSE "skip", FALSE)

restore_zsh(bd, dry, bad, io) ==
    LET found == FilesIn(bd, <<"shells", "zsh">>, ZshFiles)
        omz == <<"shells", "zsh", "ohmyzsh.tar.gz">> \in DOMAIN bd
    IN Result((IF dry THEN {} ELSE found \ bad)
                 \cup (IF omz /\ ~dry /\ io = "ok" THEN {".oh-my-zsh"} ELSE {}),
              {}, IF omz \/ found # {} THEN "ok" ELSE "skip", FALSE)

restore_starship(bd, dry, io) ==
    IF <<"config", "starship.toml">> \notin DOMAIN bd THEN Result({}, {}, "skip", FALSE)
    ELSE IF dry THEN Result({}, {}, "info", FALSE)
    ELSE IF io = "mkdir_fail" THEN Result({}, {}, "none", TRUE)
    ELSE Result({".config"} \cup (IF io = "ok" THEN {".config/starship.toml"} ELSE {}),
                {}, "ok", FALSE)

restore_git_config(bd, dry, bad) ==
    IF <<"config", ".gitconfig">> \notin DOMAIN bd THEN Result({}, {}, "skip", FALSE)
    ELSE IF dry THEN Result({}, {}, "info", FALSE)
    ELSE Result(IF bad THEN {} ELSE {".gitconfig"}, {}, "ok", FALSE)

\* yes: the answer to "Configure Git credential helper?"
setup_git_credential_helper(yes, dry) ==
    IF ~yes THEN Result({}, {}, "skip", FALSE)
    ELSE IF dry THEN Result({}, {}, "info", FALSE)
    ELSE Result({}, {"git_config_credential_helper"}, "ok", FALSE)

\* restore_ssh: raised stands for the False it returns
restore_ssh(bd, dry, io) ==
    IF <<"ssh", "ssh_backup.tar.gz">> \notin DOMAIN bd THEN Result({}, {}, "none", FALSE)
    ELSE IF dry THEN Result({}, {}, "info", FALSE)
    ELSE IF io # "ok" THEN Result({}, {}, "error", FALSE)
    ELSE Result({".ssh"}, {}, "ok", FALSE)

\* h: the home directory; curl: whether the installer download exited zero
restore_conda(bd, dry, h, curl) ==
    LET ymls == {p \in DOMAIN bd : Len(p) = 2 /\ p[1] = "conda"}
        envs == {p \in ymls : p[2] # "base.yml"}
        present == "miniconda3/bin/conda" \in h
        install == IF present \/ dry \/ ~curl THEN {} ELSE {"miniconda_installer"}
        conda_bin == present \/ install # {}
    IN IF ymls = {} THEN Result({}, {}, "skip", FALSE)
       ELSE Result(IF install # {} THEN {"miniconda3"} ELSE {},
                   install \cup (IF ~dry /\ conda_bin THEN {"conda_init"} ELSE {})
                           \cup (IF ~dry /\ envs # {} THEN {"conda_env_create"} ELSE {}),
                   "ok", FALSE)

\* io: mkdir of ~/.local/share/fish and the copytree into it
restore_history(bd, dry, bad, io) ==
    LET found == FilesIn(bd, <<"history">>, <<".bash_history", ".zsh_history">>)
        fish == IsDirIn(bd, <<"history", "fish">>)
    IN IF ~IsDirIn(bd, <<"history">>) THEN Result({}, {}, "skip", FALSE)
       ELSE IF dry THEN Result({}, {}, "info", FALSE)
       ELSE IF fish /\ io = "mkdir_fail" THEN Result(found \ bad, {}, "none", TRUE)
       ELSE Result((found \ bad) \cup (IF fish THEN {".local/share/fish"} ELSE {}), {},
                   IF found # {} \/ (fish /\ io = "ok") THEN "ok" ELSE "skip", FALSE)

\* io: per archive, the outcome of the guarded mkdir/open/extractall block
restore_cloud_creds(bd, dry, io) ==
    LET present == {d \in CloudDirs : <<"config", "cloud", d[1]>> \in DOMAIN bd}
        done == {d \in present : io[d] = "ok"}
    IN IF ~IsDirIn(bd, <<"config", "cloud">>) THEN Result({}, {}, "skip", FALSE)
       ELSE IF dry THEN Result({}, {}, "info", FALSE)
       ELSE Result({d[2] : d \in done}, {}, IF done # {} THEN "ok" ELSE "none", FALSE)

\* installed: command_exists(shell) after the package manager ran
install_shell(shell, pm, m, dry, installed) ==
    IF command_exists(m, shell) THEN Result({}, {}, "ok", FALSE)
    ELSE IF dry THEN Result({}, {}, "info", FALSE)
    ELSE IF pm \in {"apt", "brew", "dnf", "pacman"} /\ shell \in {"fish", "zsh"} /\ installed
         THEN Result({}, {"install_" \o shell}, "ok", FALSE)
    ELSE Result({}, {}, "error", FALSE)

install_starship(m, dry, installed) ==
    IF command_exists(m, "starship") THEN Result({}, {}, "ok", FALSE)
    ELSE IF dry THEN Result({}, {}, "info", FALSE)
    ELSE IF installed THEN Result({}, {"install_starship"}, "ok", FALSE)
    ELSE Result({}, {}, "warn", FALSE)

\* which: shutil.which(shell) finds it; chsh: "chsh -s" or "sudo chsh -s" exited zero
set_default_shell(which, dry, chsh) ==
    IF ~which THEN Result({}, {}, "error", FALSE)
    ELSE IF dry THEN Result({}, {}, "info", FALSE)
    ELSE IF chsh THEN Result({}, {"chsh"}, "ok", FALSE)
    ELSE Result({}, {}, "warn", FALSE)

\* answers to "Enter email for SSH key"
Emails == {"", "alice@example.com", "alice"}

validate_email(email) == email = "alice@example.com"

\* io: "ok", "mkdir_fail" for ssh_dir.mkdir raising, "keygen_fail" for a non-zero exit
generate_ssh_key(email, io) ==
    IF ~validate_email(email) THEN Result({}, {}, "error", FALSE)
    ELSE IF io = "mkdir_fail" THEN Result({}, {}, "none", TRUE)
    ELSE IF io = "ok" THEN Result({".ssh", ".ssh/id_ed25519"}, {"ssh_keygen"}, "ok", FALSE)
    ELSE Result({".ssh"}, {"ssh_keygen"}, "error", FALSE)

(***************************************************************************)
(* do_restore after the confirmation, lines 415-501.  The home directory   *)
(* as it was found stays in home; rs.written collects the entries the      *)
(* restore wrote below it and rs.sys the changes made outside it.          *)
(***************************************************************************)
RestoreFrame ==
    UNCHANGED <<cmd, dry_run, home, env, repo_url, backup_name, is_shareable, include,
                shells_to_backup, shell_idx, staged, stagedExists, tempDir,
                manifestFile, manifestRet, gitOps, workcopy, sn, ck, fn>>

\* the effect of a call with result r: an exception that leaves the
\* routine is caught nowhere, the interpreter prints a traceback and the
\* process exits with 1
Restored(cat, routine, r, cost, idx, next) ==
    /\ rs' = [rs EXCEPT !.written = @ \cup r.written, !.sys = @ \cup r.sys, !.idx = idx]
    /\ status' = IF cat \in Categories THEN [status EXCEPT ![cat] = r.status] ELSE status
    /\ invoked' = Append(invoked, routine)
    /\ faults' = faults + cost
    /\ IF r.raised
       THEN reported' = reported \cup {"traceback"} /\ Exit(1)
       ELSE pc' = next /\ UNCHANGED <<reported, exitCode>>

SshOutcomes == {"ok", "mkdir_fail", "fail"}

\* lines 419-432: the backup holds SSH keys
SshFromBackup ==
    /\ pc = "SshKeys" /\ HasSshBackup(BackupDir)
    /\ \E a \in Answers :
          /\ read_choice(a, Len(SshOptions)).kind = "return"
          /\ LET ssh_choice == read_choice(a, Len(SshOptions)).value IN
             \/ /\ ssh_choice = 1
                /\ \E io \in Outcomes(~dry_run, {"ok", "fail"}) :
                      Restored("ssh", "restore_ssh", restore_ssh(BackupDir, dry_run, io),
                               Cost(io), 1, "SelectShell")
             \/ /\ ssh_choice = 2
                /\ \E email \in Emails \ {""} :
                   \E io \in Outcomes(validate_email(email), SshOutcomes) :
                      Restored("ssh", "generate_ssh_key", generate_ssh_key(email, io),
                               Cost(io), 1, "SelectShell")
             \/ /\ ssh_choice = 2
                /\ pc' = "SelectShell"
                /\ UNCHANGED <<rs, status, invoked, faults, reported, exitCode>>
             \/ /\ ssh_choice = 3
                /\ status' = [status EXCEPT !["ssh"] = "skip"]
                /\ pc' = "SelectShell"
                /\ UNCHANGED <<rs, invoked, faults, reported, exitCode>>
    /\ choice' = IdleChoice
    /\ RestoreFrame

\* lines 433-441: no SSH keys in the backup
SshGenerate ==
    /\ pc = "SshKeys" /\ ~HasSshBackup(BackupDir)
    /\ \E yes \in BOOLEAN, email \in Emails :
          IF yes /\ email # ""
          THEN \E io \in Outcomes(TRUE, IF validate_email(email) THEN SshOutcomes
                                        ELSE {"ok", "mkdir_fail"}) :
                  LET g == generate_ssh_key(email, io)
                      r == IF io = "mkdir_fail" THEN Result({}, {}, "none", TRUE)
                           ELSE [g EXCEPT !.written = @ \cup {".ssh"}]
                  IN Restored("ssh", "generate_ssh_key", r, Cost(io), 1, "SelectShell")
          ELSE /\ pc' = "SelectShell"
               /\ UNCHANGED <<rs, status, invoked, faults, reported, exitCode>>
    /\ choice' = IdleChoice
    /\ RestoreFrame

\* lines 443-459
SelectShell ==
    /\ pc = "SelectShell"
    /\ \E a \in Answers :
          LET shells == AvailableShells(BackupDir)
              c == read_choice(a, Len(shells))
          IN /\ c.kind = "return"
             /\ rs' = [rs EXCEPT !.available_shells = shells,
                                 !.default_shell = shells[c.value]]
    /\ choice' = IdleChoice
    /\ pc' = "InstallComponents"
    /\ UNCHANGED <<status, invoked, faults, reported, exitCode>>
    /\ RestoreFrame

\* lines 464-466: install_shell per shell of the backup, then install_starship
\* (on the machines of the model a shell that is missing has no package
\* manager to install it with, so command_exists stays false after the attempt)
InstallComponents ==
    /\ pc = "InstallComponents"
    /\ LET pm == detect_package_manager(env)
           shells == rs.available_shells
           sh(i) == install_shell(shells[i], pm, env, dry_run, FALSE)
       IN \E io \in Outcomes(~command_exists(env, "starship") /\ ~dry_run, {"ok", "fail"}) :
             LET st == install_starship(env, dry_run, io = "ok") IN
             /\ rs' = [rs EXCEPT !.sys = @ \cup st.sys
                                        \cup UNION {sh(i).sys : i \in 1..Len(shells)}]
             /\ invoked' = invoked \o [i \in 1..Len(shells) |-> "install_shell"]
                                   \o <<"install_starship">>
             /\ faults' = faults + Cost(io)
    /\ pc' = "RestoreShells"
    /\ UNCHANGED <<status, reported, exitCode, choice>>
    /\ RestoreFrame

\* the loop over the shells leaves for the step after restore_starship
AfterRestoredShell_SkipsStarship ==
    IF rs.idx = Len(rs.available_shells) THEN "RestoreGitConfig" ELSE "RestoreShells"

\* the "for shell in available_shells" loop of lines 471-477 leaves for restore_starship
AfterRestoredShell ==
    IF rs.idx = Len(rs.available_shells) THEN "RestoreStarship" ELSE "RestoreShells"

RestoreFish ==
    /\ pc = "RestoreShells" /\ rs.available_shells[rs.idx] = "fish"
    /\ \E io \in Outcomes(~dry_run, ExtractOutcomes) :
          Restored("fish", "restore_fish", restore_fish(BackupDir, dry_run, io), Cost(io),
                   rs.idx + 1, AfterRestoredShell)
    /\ UNCHANGED choice
    /\ RestoreFrame

RestoreBash ==
    /\ pc = "RestoreShells" /\ rs.available_shells[rs.idx] = "bash"
    /\ \E bad \in BadSets(~dry_run, FilesIn(BackupDir, <<"shells", "bash">>, BashFiles)) :
          Restored("bash", "restore_bash", restore_bash(BackupDir, dry_run, bad),
                   Cardinality(bad), rs.idx + 1, AfterRestoredShell)
    /\ UNCHANGED choice
    /\ RestoreFrame

RestoreZsh ==
    /\ pc = "RestoreShells" /\ rs.available_shells[rs.idx] = "zsh"
    /\ \E bad \in BadSets(~dry_run, FilesIn(BackupDir, <<"shells", "zsh">>, ZshFiles)) :
       \E io \in IF bad = {} THEN Outcomes(~dry_run, {"ok", "extract_fail"}) ELSE {"ok"} :
          Restored("zsh", "restore_zsh", restore_zsh(BackupDir, dry_run, bad, io),
                   Cardinality(bad) + Cost(io), rs.idx + 1, AfterRestoredShell)
    /\ UNCHANGED choice
    /\ RestoreFrame

RestoreStarship ==
    /\ pc = "RestoreStarship"
    /\ \E io \in Outcomes(~dry_run, {"ok", "mkdir_fail", "copy_fail"}) :
          Restored("starship", "restore_starship", restore_starship(BackupDir, dry_run, io),
                   Cost(io), rs.idx, "RestoreGitConfig")
    /\ UNCHANGED choice
    /\ RestoreFrame

RestoreGitConfig ==
    /\ pc = "RestoreGitConfig"
    /\ \E bad \in IF ~dry_run /\ Budget > 0 THEN BOOLEAN ELSE {FALSE} :
          Restored("git_config", "restore_git_config",
                   restore_git_config(BackupDir, dry_run, bad),
                   IF bad THEN 1 ELSE 0, rs.idx, "CredentialHelper")
    /\ UNCHANGED choice
    /\ RestoreFrame

CredentialHelper ==
    /\ pc = "CredentialHelper"
    /\ \E yes \in BOOLEAN :
          Restored("credential_helper", "setup_git_credential_helper",
                   setup_git_credential_helper(yes, dry_run), 0, rs.idx, "RestoreConda")
    /\ UNCHANGED choice
    /\ RestoreFrame

RestoreConda ==
    /\ pc = "RestoreConda"
    /\ \E io \in Outcomes(~dry_run, {"ok", "fail"}) :
          Restored("conda", "restore_conda",
                   restore_conda(BackupDir, dry_run, home, io = "ok"),
                   Cost(io), rs.idx, "RestoreHistory")
    /\ UNCHANGED choice
    /\ RestoreFrame

RestoreHistory ==
    /\ pc = "RestoreHistory"
    /\ \E io \in Outcomes(~dry_run, {"ok", "mkdir_fail", "copy_fail"}) :
          Restored("history", "restore_history",
                   restore_history(BackupDir, dry_run, {}, io),
                   Cost(io), rs.idx, "RestoreCloud")
    /\ UNCHANGED choice
    /\ RestoreFrame

RestoreCloud ==
    /\ pc = "RestoreCloud"
    /\ \E d \in CloudDirs : \E o \in Outcomes(~dry_run, {"ok", "extract_fail"}) :
          Restored("cloud", "restore_cloud_creds",
                   restore_cloud_creds(BackupDir, dry_run,
                                       [x \in CloudDirs |-> IF x = d THEN o ELSE "ok"]),
                   Cost(o), rs.idx, "SetDefaultShell")
    /\ UNCHANGED choice
    /\ RestoreFrame

\* lines 486-501: set_default_shell, then "RESTORE COMPLETE" and the return to cli.main
SetDefaultShell ==
    /\ pc = "SetDefaultShell"
    /\ LET which == command_exists(env, rs.default_shell) IN
       \E io \in Outcomes(which /\ ~dry_run, {"ok", "fail"}) :
          LET r == set_default_shell(which, dry_run, io = "ok") IN
          /\ rs' = [rs EXCEPT !.sys = @ \cup r.sys]
          /\ faults' = faults + Cost(io)
    /\ invoked' = Append(invoked, "set_default_shell")
    /\ reported' = reported \cup {"restore_complete"}
    /\ Exit(0)
    /\ UNCHANGED <<status, choice>>
    /\ RestoreFrame

Next ==
    \/ CheckDependencies
    \/ CollectRepoURL
    \/ CollectBackupName
    \/ ChoiceReprompt
    \/ ChoiceRaises
    \/ SelectBackupType
    \/ SelectData
    \/ SelectShells
    \/ RunFish
    \/ RunBash
    \/ RunZsh
    \/ RunPackages
    \/ RunStarship
    \/ RunGitConfig
    \/ RunSsh
    \/ RunConda
    \/ RunHistory
    \/ RunCloud
    \/ BuildManifest
    \/ VerifySsh
    \/ Clone
    \/ InitRepo
    \/ Copy
    \/ Push
    \/ AtExit
    \/ FetchBackups
    \/ ListBackups
    \/ SelectBackup
    \/ ConfirmContinue
    \/ SshFromBackup
    \/ SshGenerate
    \/ SelectShell
    \/ InstallComponents
    \/ RestoreFish
    \/ RestoreBash
    \/ RestoreZsh
    \/ RestoreStarship
    \/ RestoreGitConfig
    \/ CredentialHelper
    \/ RestoreConda
    \/ RestoreHistory
    \/ RestoreCloud
    \/ SetDefaultShell

Spec == Init /\ [][Next]_vars

(***************************************************************************)
(* do_restore on its own: cli.main dispatched "restore".                   *)
(***************************************************************************)
RestoreInit == Init /\ cmd = "restore"

RestoreNext ==
    \/ CheckDependencies
    \/ CollectRepoURL
    \/ ChoiceReprompt
    \/ ChoiceRaises
    \/ VerifySsh
    \/ Clone
    \/ AtExit
    \/ FetchBackups
    \/ ListBackups
    \/ SelectBackup
    \/ ConfirmContinue
    \/ SshFromBackup
    \/ SshGenerate
    \/ SelectShell
    \/ InstallComponents
    \/ RestoreFish
    \/ RestoreBash
    \/ RestoreZsh
    \/ RestoreStarship
    \/ RestoreGitConfig
    \/ CredentialHelper
    \/ RestoreConda
    \/ RestoreHistory
    \/ RestoreCloud
    \/ SetDefaultShell

SpecRestore == RestoreInit /\ [][RestoreNext]_vars

(***************************************************************************)
(* sanitize_name on its own: a name is drawn, then sanitized.              *)
(***************************************************************************)
\* the orchestrator at rest while a pure function is exercised
OrchIdle ==
    /\ pc = "Idle"
    /\ cmd = "none"
    /\ dry_run = FALSE
    /\ home = {}
    /\ env = [os_name |-> "linux", commands |-> {}]
    /\ repo_url = "unread"
    /\ backup_name = ""
    /\ is_shareable = FALSE
    /\ include = NoInclude
    /\ shells_to_backup = <<>>
    /\ shell_idx = 1
    /\ invoked = <<>>
    /\ status = [c \in Categories |-> "none"]
    /\ staged = EmptyTree
    /\ stagedExists = FALSE
    /\ tempDir = FALSE
    /\ manifestFile = NoFile
    /\ manifestRet = "none"
    /\ gitOps = <<>>
    /\ workcopy = NoWorkcopy
    /\ reported = {}
    /\ exitCode = -1
    /\ faults = 0
    /\ choice = IdleChoice
    /\ rs = IdleRs

\* characters of the names tried: a letter, a digit, the dot, the dash and
\* "/", which stands for every character outside [a-zA-Z0-9._-]
NameChars == {"a", "7", ".", "-", "/"}

MaxPatternLen == 3
MaxRepeats == 51

\* the sequence t written k times
Repeat(t, k) == [i \in 1..(k * Len(t)) |-> t[((i - 1) % Len(t)) + 1]]

\* the names tried: a short pattern, alone, doubled, or repeated past 100 characters
NameInputs ==
    {Repeat(t, k) : t \in UNION {[1..n -> NameChars] : n \in 0..MaxPatternLen},
                    k \in {1, 2, MaxRepeats}}

SanitizeInit ==
    /\ OrchIdle
    /\ ck = IdleCk
    /\ fn = IdleFn
    /\ \E input \in NameInputs, now \in Clocks :
          sn = [input |-> input, now |-> now, output |-> <<>>, done |-> FALSE]

Sanitize ==
    /\ ~sn.done
    /\ sn' = [sn EXCEPT !.output = sanitize_name(sn.input, sn.now), !.done = TRUE]
    /\ UNCHANGED <<orchVars, ck, fn>>

SanitizeNext == Sanitize

SpecSanitize == SanitizeInit /\ [][SanitizeNext]_vars

(***************************************************************************)
(* calculate_checksum on its own: a tree is drawn and digested, then files *)
(* are added or rewritten and the digest is taken again.                   *)
(***************************************************************************)
CkPaths == { <<"config", ".gitconfig">>, <<"shells", "bash", ".bashrc">>,
             <<"old.txt">>, <<"manifest.json">> }

CkBytes == {1, 2}

MaxFileLen == 1

CkContents == UNION {[1..n -> CkBytes] : n \in 0..MaxFileLen}

CkTrees == UNION {[S -> CkContents] : S \in SUBSET CkPaths}

\* the orders in which rglob can yield the paths S
Enumerations(S) ==
    {e \in [1..Cardinality(S) -> S] : \A i, j \in 1..Cardinality(S) : e[i] = e[j] => i = j}

IsManifest(p) == p[Len(p)] = "manifest.json"

ChecksumInit ==
    /\ OrchIdle
    /\ sn = IdleSn
    /\ fn = IdleFn
    /\ \E tree \in CkTrees :
          ck = [tree |-> tree,
                digest |-> calculate_checksum(tree, AnEnumeration(DOMAIN tree), {}),
                prev |-> calculate_checksum(tree, AnEnumeration(DOMAIN tree), {}),
                op |-> "init"]

\* the digest of the same tree is taken again, rglob yielding some order
Recompute ==
    /\ \E enum \in Enumerations(DOMAIN ck.tree) :
          ck' = [ck EXCEPT !.prev = ck.digest,
                           !.digest = calculate_checksum(ck.tree, enum, {}),
                           !.op = "recompute"]
    /\ UNCHANGED <<orchVars, sn, fn>>

\* a file is created in the tree and the digest taken again
AddFile ==
    /\ \E p \in CkPaths \ DOMAIN ck.tree, c \in CkContents :
          LET t == (p :> c) @@ ck.tree
          IN ck' = [tree |-> t,
                    prev |-> ck.digest,
                    digest |-> calculate_checksum(t, AnEnumeration(DOMAIN t), {}),
                    op |-> IF IsManifest(p) THEN "manifest" ELSE "add"]
    /\ UNCHANGED <<orchVars, sn, fn>>

\* a file of the tree gets other content and the digest is taken again
ModifyFile ==
    /\ \E p \in DOMAIN ck.tree, c \in CkContents :
          /\ c # ck.tree[p]
          /\ LET t == [ck.tree EXCEPT ![p] = c]
             IN ck' = [tree |-> t,
                       prev |-> ck.digest,
                       digest |-> calculate_checksum(t, AnEnumeration(DOMAIN t), {}),
                       op |-> IF IsManifest(p) THEN "manifest" ELSE "modify"]
    /\ UNCHANGED <<orchVars, sn, fn>>

ChecksumNext == Recompute \/ AddFile \/ ModifyFile

SpecChecksum == ChecksumInit /\ [][ChecksumNext]_vars

(***************************************************************************)
(* push_to_repo on its own: the outcomes of its git commands are drawn,    *)
(* then the function is called.                                            *)
(***************************************************************************)
PushInit ==
    /\ OrchIdle
    /\ sn = IdleSn /\ ck = IdleCk
    /\ \E dry \in BOOLEAN, io \in PushOutcomes :
          fn = [op |-> "push_to_repo", dry |-> dry, io |-> io, done |-> FALSE,
                ret |-> FALSE, ops |-> <<>>]

CallPush ==
    /\ fn.op = "push_to_repo" /\ ~fn.done
    /\ fn' = [fn EXCEPT !.done = TRUE,
                        !.ret = push_to_repo(fn.dry, fn.io).ret,
                        !.ops = push_to_repo(fn.dry, fn.io).ops]
    /\ UNCHANGED <<orchVars, sn, ck>>

PushNext == CallPush

SpecPush == PushInit /\ [][PushNext]_vars

(***************************************************************************)
(* verify_ssh_connection on its own: a URL and what "ssh -T" would exit    *)
(* with and print are drawn, then the function is called.  run_command     *)
(* turns a timeout into exit status 1 with "timeout" as stderr.            *)
(***************************************************************************)
ProbeUrls == DOMAIN UrlText \ {""}

ProbeTexts ==
    { [out |-> <<>>,
       err |-> <<"H", "i", " ", "a", "l", "i", "c", "e", "!", " ", "Y", "o", "u", "'", "v", "e",
                  " ", "s", "u", "c", "c", "e", "s", "s", "f", "u", "l", "l", "y", " ",
                  "a", "u", "t", "h", "e", "n", "t", "i", "c", "a", "t", "e", "d", ",",
                  " ", "b", "u", "t", " ", "G", "i", "t", "H", "u", "b", " ", "d", "o",
                  "e", "s", " ", "n", "o", "t", " ", "p", "r", "o", "v", "i", "d", "e",
                  " ", "s", "h", "e", "l", "l", " ", "a", "c", "c", "e", "s", "s", ".", "\n">>],
      [out |-> <<"W", "e", "l", "c", "o", "m", "e", " ", "t", "o", " ", "G", "i", "t", "L", "a",
                  "b", ",", " ", "@", "a", "l", "i", "c", "e", "!", "\n">>,
       err |-> <<>>],
      [out |-> <<>>,
       err |-> <<"g", "i", "t", "@", "g", "i", "t", "h", "u", "b", ".", "c", "o", "m", ":", " ",
                  "P", "e", "r", "m", "i", "s", "s", "i", "o", "n", " ", "d", "e", "n",
                  "i", "e", "d", " ", "(", "p", "u", "b", "l", "i", "c", "k", "e", "y",
                  ")", ".", "\n">>],
      [out |-> <<>>,
       err |-> <<"t", "i", "m", "e", "o", "u", "t">>],
      [out |-> <<"H", "I", " ", "T", "H", "E", "R", "E">>,
       err |-> <<>>],
      [out |-> <<"h", "i">>,
       err |-> <<" ", "t", "h", "e", "r", "e">>],
      [out |-> <<>>,
       err |-> <<>>],
      [out |-> <<"S", "u", "c", "c", "e", "s", "s", "f", "u", "l", "l", "y", " ", "A", "u", "t",
                  "h", "e", "n", "t", "i", "c", "a", "t", "e", "d">>,
       err |-> <<>>],
      [out |-> <<>>,
       err |-> <<"s", "s", "h", ":", " ", "c", "o", "n", "n", "e", "c", "t", " ", "t", "o", " ",
                  "h", "o", "s", "t", " ", "g", "i", "t", "h", "u", "b", ".", "c", "o",
                  "m", " ", "p", "o", "r", "t", " ", "2", "2", ":", " ", "C", "o", "n",
                  "n", "e", "c", "t", "i", "o", "n", " ", "r", "e", "f", "u", "s", "e",
                  "d", "\n">>] }

ExitCodes == {0, 1, 255}

VerifyInit ==
    /\ OrchIdle
    /\ sn = IdleSn /\ ck = IdleCk
    /\ \E u \in ProbeUrls, t \in ProbeTexts, rc \in ExitCodes :
          fn = [op |-> "verify_ssh_connection", url |-> u, rc |-> rc, out |-> t.out,
                err |-> t.err, done |-> FALSE, ran |-> FALSE, ret |-> FALSE]

CallVerify ==
    /\ fn.op = "verify_ssh_connection" /\ ~fn.done
    /\ fn' = [fn EXCEPT !.done = TRUE,
                        !.ran = MatchesGitAtHost(fn.url),
                        !.ret = verify_ssh_connection(fn.url,
                                                      SshGreeted(fn.rc, fn.out, fn.err))]
    /\ UNCHANGED <<orchVars, sn, ck>>

VerifyNext == CallVerify

SpecVerify == VerifyInit /\ [][VerifyNext]_vars

(***************************************************************************)
(* cli.main on its own: an argument list is drawn, then the "while args"   *)
(* loop takes one argument per step.                                       *)
(***************************************************************************)
\* the tokens cli.main knows, by the branch of lines 63-81 that takes them
TokenKind ==
    ("--verbose" :> "verbose") @@ ("-v" :> "verbose") @@ ("--dry-run" :> "dry_run")
    @@ ("--help" :> "help") @@ ("-h" :> "help") @@ ("help" :> "help")
    @@ ("--version" :> "version") @@ ("version" :> "version")
    @@ ("backup" :> "backup") @@ ("restore" :> "restore")

\* arguments tried: the known ones and some that are not
Tokens == DOMAIN TokenKind \cup {"bogus", "--bogus", "Backup"}

ArgLists == UNION {[1..n -> Tokens] : n \in 0..MaxArgs}

\* a scan that steps over what it does not know
Classify_SkipsUnknown(arg) == IF arg \in DOMAIN TokenKind THEN TokenKind[arg] ELSE "verbose"

\* the branch of the if/elif chain taken for arg
Classify(arg) == IF arg \in DOMAIN TokenKind THEN TokenKind[arg] ELSE "unknown"

CliInit ==
    /\ OrchIdle
    /\ sn = IdleSn /\ ck = IdleCk
    /\ \E argv \in ArgLists :
          fn = [op |-> "main", argv |-> argv, args |-> argv, verbose |-> FALSE,
                dry_run |-> FALSE, called |-> "none", result |-> "scanning"]

\* a loop that calls the subcommand and then goes on with the arguments
\* that follow it
ScanArg_KeepsScanning ==
    /\ fn.op = "main" /\ fn.result = "scanning" /\ fn.args # <<>>
    /\ LET kind == Classify(Head(fn.args)) IN
       fn' = CASE kind = "verbose" -> [fn EXCEPT !.verbose = TRUE, !.args = Tail(@)]
               [] kind = "dry_run" -> [fn EXCEPT !.dry_run = TRUE, !.args = Tail(@)]
               [] kind = "help" -> [fn EXCEPT !.called = "show_help", !.result = "returned"]
               [] kind = "version" ->
                     [fn EXCEPT !.called = "show_version", !.result = "returned"]
               [] kind = "backup" -> [fn EXCEPT !.args = Tail(@), !.called = "do_backup"]
               [] kind = "restore" -> [fn EXCEPT !.args = Tail(@), !.called = "do_restore"]
               [] OTHER -> [fn EXCEPT !.called = "print_error", !.result = "SystemExit(1)"]
    /\ UNCHANGED <<orchVars, sn, ck>>

\* one pass of the loop, lines 61-87
ScanArg ==
    /\ fn.op = "main" /\ fn.result = "scanning" /\ fn.args # <<>>
    /\ LET kind == Classify(Head(fn.args)) IN
       fn' = CASE kind = "verbose" -> [fn EXCEPT !.verbose = TRUE, !.args = Tail(@)]
               [] kind = "dry_run" -> [fn EXCEPT !.dry_run = TRUE, !.args = Tail(@)]
               [] kind = "help" -> [fn EXCEPT !.called = "show_help", !.result = "returned"]
               [] kind = "version" ->
                     [fn EXCEPT !.called = "show_version", !.result = "returned"]
               [] kind = "backup" ->
                     [fn EXCEPT !.args = Tail(@), !.called = "do_backup",
                                !.result = "returned"]
               [] kind = "restore" ->
                     [fn EXCEPT !.args = Tail(@), !.called = "do_restore",
                                !.result = "returned"]
               [] OTHER -> [fn EXCEPT !.called = "print_error", !.result = "SystemExit(1)"]
    /\ UNCHANGED <<orchVars, sn, ck>>

\* line 89: the loop ended without a subcommand
ScanEnd ==
    /\ fn.op = "main" /\ fn.result = "scanning" /\ fn.args = <<>>
    /\ fn' = [fn EXCEPT !.called = "show_help", !.result = "returned"]
    /\ UNCHANGED <<orchVars, sn, ck>>

CliNext == ScanArg \/ ScanEnd

SpecCli == CliInit /\ [][CliNext]_vars

(***************************************************************************)
(* The copy step of do_backup on its own: a cloned working copy, a typed   *)
(* backup name and a staged tree are drawn; the manifest is written and    *)
(* the staged directory is copied to backups/<name>.                       *)
(***************************************************************************)
\* lines typed at the "Backup name" prompt: nothing, ".", "../", "config"
CopyTyped == { <<>>, <<".">>, <<".", ".", "/">>, <<"c", "o", "n", "f", "i", "g">> }

\* what the clone holds: the repositories of the model and one with a
\* backup that is named like a directory of the staged tree
CopyRepos ==
    RepoContents \cup
    { [exists |-> TRUE, dirs |-> {"config"},
       tree |-> (<<"config", "config", "starship.toml">> :> <<7>>),
       manifests |-> NoManifests, repo |-> "git_dir"] }

CopyPaths == { <<"shells", "bash", ".bashrc">>, <<"shells", "bash", ".bash_profile">>,
               <<"config", ".gitconfig">> }

CopyStaged == UNION {[S -> {<<1>>, <<2>>}] : S \in SUBSET CopyPaths}

CopyInit ==
    /\ OrchIdle
    /\ sn = IdleSn /\ ck = IdleCk
    /\ \E typed \in CopyTyped, wc \in CopyRepos, tree \in CopyStaged :
          fn = [op |-> "copy",
                name |-> Join(sanitize_name(read_input(typed, DefaultName, FALSE),
                                            CHOOSE now \in Clocks : TRUE)),
                wc |-> wc, tree |-> tree, done |-> FALSE, after |-> wc]

\* backup.py 471-476 and 497-505
StageAndCopy ==
    /\ fn.op = "copy" /\ ~fn.done
    /\ LET args == [backup_name |-> fn.name, backup_type |-> "full", shells |-> <<"bash">>,
                    os_name |-> "linux", arch |-> SysArch, pm |-> "apt"]
           m == create_manifest(fn.tree, NoFile, args, FALSE, SysInfo,
                                [w1 |-> "ok", w2 |-> "ok",
                                 enum |-> AnEnumeration(DOMAIN fn.tree)])
       IN fn' = [fn EXCEPT !.done = TRUE,
                           !.after = CopyTree(fn.wc, fn.name, fn.tree, m.file, StagedTopDirs)]
    /\ UNCHANGED <<orchVars, sn, ck>>

CopyNext == StageAndCopy

SpecCopy == CopyInit /\ [][CopyNext]_vars

(***************************************************************************)
(* backup_packages on its own: a package manager and the exit status of    *)
(* each of its sub-commands are drawn, then the routine is called.         *)
(***************************************************************************)
\* what detect_package_manager can return
PackageManagers == {"apt", "brew", "dnf", "yum", "pacman", "zypper", "apk", "unknown"}

\* exit statuses of a listing sub-command: success, failure, command not found
PkgExitCodes == {0, 1, 127}

PackagesInit ==
    /\ OrchIdle
    /\ sn = IdleSn /\ ck = IdleCk
    /\ \E pm \in PackageManagers, dry \in BOOLEAN :
       \E rc \in [Range(PkgCommands(pm)) -> PkgExitCodes] :
          fn = [op |-> "backup_packages", pm |-> pm, dry |-> dry, rc |-> rc,
                done |-> FALSE, files |-> EmptyTree, status |-> "none"]

CallPackages ==
    /\ fn.op = "backup_packages" /\ ~fn.done
    /\ LET r == backup_packages(fn.pm, fn.dry, {f \in DOMAIN fn.rc : fn.rc[f] # 0})
       IN fn' = [fn EXCEPT !.done = TRUE, !.files = r.files, !.status = r.status]
    /\ UNCHANGED <<orchVars, sn, ck>>

PackagesNext == CallPackages

SpecPackages == PackagesInit /\ [][PackagesNext]_vars

(***************************************************************************)
(* backup_conda on its own, one step per sub-command: the listing, then    *)
(* one export per name kept, then the status line.  A line of the listing  *)
(* is the sequence of its words, a word a sequence of characters.          *)
(***************************************************************************)
MaxEnvLines == 3

\* what subprocess.run can do inside run_command
CmdOutcomes == {"exit0", "exit1", "timeout", "raise"}

\* the exit status run_command returns
run_command(outcome) == IF outcome = "exit0" THEN 0 ELSE 1

EnvLines ==
    { <<>>,
      << <<"#">>, <<"c","o","n","d","a">> >>,
      << <<"b","a","s","e">>, <<"*">>, <<"/","r","/","m","3">> >>,
      << <<"m","l">>, <<"/","r","/","m","3","/","m","l">> >>,
      << <<"p","y","-","3","_","8">>, <<"/","r","/","m","3","/","p">> >>,
      << <<"/","o","p","t","/","e">> >>,
      << <<"*">>, <<"/","o","p","t","/","e">> >> }

EnvListings == UNION {[1..n -> EnvLines] : n \in 0..MaxEnvLines}

\* name.replace("-", "").replace("_", "").isalnum()
IsAlnumName(name) ==
    LET rest == SelectSeq(name, LAMBDA c : c \notin {"-", "_"})
    IN rest # <<>> /\ \A i \in 1..Len(rest) : rest[i] \in Letters \cup Digits

\* the loop over out.splitlines(): the names kept, in the order listed
KeptEnvs(lines) ==
    LET kept == SelectSeq(lines, LAMBDA l : /\ l # <<>>
                                            /\ l[1][1] # "#"
                                            /\ l[1] # <<"*">>
                                            /\ IsAlnumName(l[1]))
    IN [i \in 1..Len(kept) |-> Join(kept[i][1])]

CondaInit ==
    /\ OrchIdle
    /\ sn = IdleSn /\ ck = IdleCk
    /\ \E h \in {{}, {"miniconda3/bin/conda"}}, dry \in BOOLEAN, lines \in EnvListings :
          /\ (h = {} \/ dry) => lines = <<>>
          /\ fn = [op |-> "backup_conda", home |-> h, dry |-> dry, lines |-> lines,
                   at |-> "list", listed |-> "none", envs |-> <<>>, rcs |-> <<>>,
                   attempts |-> <<>>, count |-> 0, files |-> EmptyTree,
                   status |-> "none", returned |-> FALSE]

\* the search for conda, the dry-run branch, "conda env list" and the
\* parsing of its output
CondaList ==
    /\ fn.op = "backup_conda" /\ fn.at = "list"
    /\ IF CondaBins \cap fn.home = {}
       THEN fn' = [fn EXCEPT !.at = "done", !.status = "skip", !.returned = TRUE]
       ELSE IF fn.dry
       THEN fn' = [fn EXCEPT !.at = "done", !.status = "info", !.returned = TRUE]
       ELSE \E o \in CmdOutcomes :
              IF run_command(o) # 0
              THEN fn' = [fn EXCEPT !.at = "done", !.listed = o, !.status = "warn",
                                    !.returned = TRUE]
              ELSE fn' = [fn EXCEPT !.at = "export", !.listed = o,
                                    !.envs = KeptEnvs(fn.lines)]
    /\ UNCHANGED <<orchVars, sn, ck>>

\* the export loop stops at the first export that does not exit with zero
CondaExport_StopsOnFailure ==
    /\ fn.op = "backup_conda" /\ fn.at = "export"
    /\ Len(fn.attempts) < Len(fn.envs)
    /\ LET e == fn.envs[Len(fn.attempts) + 1]
       IN \E o \in CmdOutcomes :
             IF run_command(o) = 0
             THEN fn' = [fn EXCEPT !.attempts = Append(@, e), !.rcs = Append(@, o),
                                   !.files = (<<"conda", YmlName(e)>> :> <<8>>) @@ @,
                                   !.count = @ + 1]
             ELSE fn' = [fn EXCEPT !.attempts = Append(@, e), !.rcs = Append(@, o),
                                   !.envs = SubSeq(@, 1, Len(fn.attempts) + 1)]
    /\ UNCHANGED <<orchVars, sn, ck>>

\* one pass of "for env in envs"
CondaExport ==
    /\ fn.op = "backup_conda" /\ fn.at = "export"
    /\ Len(fn.attempts) < Len(fn.envs)
    /\ LET e == fn.envs[Len(fn.attempts) + 1]
       IN \E o \in CmdOutcomes :
             IF run_command(o) = 0
             THEN fn' = [fn EXCEPT !.attempts = Append(@, e), !.rcs = Append(@, o),
                                   !.files = (<<"conda", YmlName(e)>> :> <<8>>) @@ @,
                                   !.count = @ + 1]
             ELSE fn' = [fn EXCEPT !.attempts = Append(@, e), !.rcs = Append(@, o)]
    /\ UNCHANGED <<orchVars, sn, ck>>

\* the status line after the loop, and the return
CondaReport ==
    /\ fn.op = "backup_conda" /\ fn.at = "export"
    /\ Len(fn.attempts) = Len(fn.envs)
    /\ fn' = [fn EXCEPT !.at = "done", !.returned = TRUE,
                        !.status = IF fn.count > 0 THEN "ok" ELSE "warn"]
    /\ UNCHANGED <<orchVars, sn, ck>>

CondaNext == CondaList \/ CondaExport \/ CondaReport

SpecConda == CondaInit /\ [][CondaNext]_vars

(***************************************************************************)
(* The four prompt functions on their own.  A call is the function, its    *)
(* arguments as the signature names them, and what input() or getpass()    *)
(* does: a line, or EOFError/KeyboardInterrupt.                            *)
(***************************************************************************)
PromptLines == { <<>>, <<" ">>, <<"y">>, <<"Y", "e", "s">>, <<"n">>, <<"N", "o">>, <<" ", "m", "e", " ">> }

PromptDefaults == { <<>>, <<"m", "a", "i", "n">>, DefaultName }

\* result.lower() of read_yes_no
read_yes_no(typed, default, eof) ==
    IF eof THEN default
    ELSE LET result == lower(Strip(typed))
         IN IF result = <<>> THEN default
            ELSE result \in {<<"y">>, <<"y", "e", "s">>}

\* getpass.getpass: the line as typed
read_password(typed, eof) == IF eof THEN <<>> ELSE typed

PromptCall(func, args) ==
    [op |-> "prompt", func |-> func, args |-> args, typed |-> "none", eof |-> FALSE,
     done |-> FALSE,
     raised |-> FALSE, result |-> "none", passes |-> 0]

PromptInit ==
    /\ OrchIdle
    /\ sn = IdleSn /\ ck = IdleCk
    /\ \/ \E d \in PromptDefaults :
             fn = PromptCall("read_input", [prompt |-> "Backup name", default |-> d])
       \/ \E d \in BOOLEAN :
             fn = PromptCall("read_yes_no", [prompt |-> "Include SSH keys?", default |-> d])
       \/ \E n \in 1..3 :
             fn = PromptCall("read_choice", [prompt |-> "Select default shell",
                                             options |-> SubSeq(<<"fish", "zsh", "bash">>, 1, n)])
       \/ fn = PromptCall("read_password", [prompt |-> "Password"])

CallReadInput ==
    /\ fn.op = "prompt" /\ fn.func = "read_input" /\ ~fn.done
    /\ \E typed \in PromptLines, eof \in BOOLEAN :
          fn' = [fn EXCEPT !.done = TRUE, !.eof = eof, !.passes = 1,
                           !.typed = IF eof THEN "none" ELSE typed,
                           !.result = read_input(typed, fn.args.default, eof)]
    /\ UNCHANGED <<orchVars, sn, ck>>

CallReadYesNo ==
    /\ fn.op = "prompt" /\ fn.func = "read_yes_no" /\ ~fn.done
    /\ \E typed \in PromptLines, eof \in BOOLEAN :
          fn' = [fn EXCEPT !.done = TRUE, !.eof = eof, !.passes = 1,
                           !.typed = IF eof THEN "none" ELSE typed,
                           !.result = read_yes_no(typed, fn.args.default, eof)]
    /\ UNCHANGED <<orchVars, sn, ck>>

\* one pass of the loop of read_choice
CallReadChoice ==
    /\ fn.op = "prompt" /\ fn.func = "read_choice" /\ ~fn.done
    /\ \E a \in Answers :
          LET r == read_choice(a, Len(fn.args.options))
          IN /\ r.kind = "reprompt" => fn.passes < MaxReprompts
             /\ fn' = [fn EXCEPT !.done = (r.kind # "reprompt"), !.eof = (a = "EOF"),
                                 !.passes = @ + 1, !.typed = a,
                                 !.raised = (r.kind = "raise"),
                                 !.result = IF r.kind = "return" THEN r.value ELSE "none"]
    /\ UNCHANGED <<orchVars, sn, ck>>

CallReadPassword ==
    /\ fn.op = "prompt" /\ fn.func = "read_password" /\ ~fn.done
    /\ \E typed \in PromptLines, eof \in BOOLEAN :
          fn' = [fn EXCEPT !.done = TRUE, !.eof = eof, !.passes = 1,
                           !.typed = IF eof THEN "none" ELSE typed,
                           !.result = read_password(typed, eof)]
    /\ UNCHANGED <<orchVars, sn, ck>>

PromptNext == CallReadInput \/ CallReadYesNo \/ CallReadChoice \/ CallReadPassword

SpecPrompt == PromptInit /\ [][PromptNext]_vars

(***************************************************************************)
(* The rollback list: add_rollback_action, execute_rollback, and the end   *)
(* of the process, whose only atexit handler is cleanup.                   *)
(***************************************************************************)
MaxStack == 3
MaxRollbacks == 2

\* shell command lines registered as rollback actions
RollbackActions == {"rm -rf ~/.config/fish", "chsh -s /bin/bash"}

\* subprocess.run(action, shell=True): it returns, whatever the exit
\* status, or raises
RunOutcomes == {"returned", "raised"}

\* reversed(s)
Reversed(s) == [i \in 1..Len(s) |-> s[Len(s) + 1 - i]]

\* an execute_rollback whose loop ends at the first action that raises
execute_rollback_StopsAtFailure(stack, io) ==
    IF stack = <<>> THEN [ran |-> <<>>, stack |-> stack, printed |-> FALSE]
    ELSE LET order == Reversed(stack)
             upto == IF \E i \in 1..Len(order) : io[i] = "raised"
                     THEN CHOOSE i \in 1..Len(order) :
                             io[i] = "raised" /\ \A j \in 1..(i - 1) : io[j] # "raised"
                     ELSE Len(order)
         IN [ran |-> [i \in 1..upto |-> [action |-> order[i], outcome |-> io[i]]],
             stack |-> <<>>, printed |-> TRUE]

\* io[i]: what subprocess.run does for the i-th action executed
execute_rollback(stack, io) ==
    IF stack = <<>> THEN [ran |-> <<>>, stack |-> stack, printed |-> FALSE]
    ELSE LET order == Reversed(stack)
         IN [ran |-> [i \in 1..Len(order) |-> [action |-> order[i], outcome |-> io[i]]],
             stack |-> <<>>, printed |-> TRUE]

RollbackInit ==
    /\ OrchIdle
    /\ sn = IdleSn /\ ck = IdleCk
    /\ fn = [op |-> "rollback", rollback_stack |-> <<>>, ran |-> <<>>, printed |-> FALSE,
             calls |-> 0, last |-> "none", exited |-> FALSE]

AddRollbackAction ==
    /\ fn.op = "rollback" /\ ~fn.exited
    /\ Len(fn.rollback_stack) < MaxStack
    /\ \E action \in RollbackActions :
          fn' = [fn EXCEPT !.rollback_stack = Append(@, action), !.last = "add"]
    /\ UNCHANGED <<orchVars, sn, ck>>

ExecuteRollback ==
    /\ fn.op = "rollback" /\ ~fn.exited
    /\ fn.calls < MaxRollbacks
    /\ \E io \in [1..Len(fn.rollback_stack) -> RunOutcomes] :
          LET r == execute_rollback(fn.rollback_stack, io)
          IN fn' = [fn EXCEPT !.rollback_stack = r.stack, !.ran = r.ran,
                              !.printed = r.printed, !.calls = @ + 1, !.last = "execute"]
    /\ UNCHANGED <<orchVars, sn, ck>>

\* sys.exit in an orchestrator, or its return: the atexit handlers run, and
\* execute_rollback is not one of them
ExitProcess ==
    /\ fn.op = "rollback" /\ ~fn.exited
    /\ fn' = [fn EXCEPT !.exited = TRUE, !.last = "exit"]
    /\ UNCHANGED <<orchVars, sn, ck>>

RollbackNext == AddRollbackAction \/ ExecuteRollback \/ ExitProcess

SpecRollback == RollbackInit /\ [][RollbackNext]_vars

(***************************************************************************)
(* Properties.                                                             *)
(***************************************************************************)
\* the manifest is on disk from create_manifest until the exit hook
AfterManifest == pc \in {"VerifySsh", "Clone", "InitRepo", "Copy", "Push", "Exiting"}

\* C1: once the shareable type is chosen, backup_ssh, backup_git_config,
\* backup_history and backup_cloud_creds are never invoked, and of the data
\* prompts only the Conda one is asked.
C1_ShareableSkipsSensitive ==
    is_shareable =>
        /\ Range(invoked) \cap {"backup_ssh", "backup_git_config", "backup_history",
                                "backup_cloud_creds"} = {}
        /\ reported \cap {"ask_ssh", "ask_git_cfg", "ask_history", "ask_cloud_creds"} = {}
        /\ pc # "SelectData" => "ask_conda" \in reported

\* a shareable run over a home that holds SSH keys and cloud credentials
\* has passed every category
C1_Witness ==
    /\ is_shareable
    /\ pc = "BuildManifest"
    /\ {".ssh", ".aws"} \subseteq home
    /\ status["ssh"] = "skip" /\ status["cloud"] = "skip"
    /\ "backup_conda" \in Range(invoked)

\* C2: in dry-run mode the category routines write no file below the
\* staged directory, and no category reports with status "ok".
C2_DryRunWritesNothingReportsInfo ==
    (cmd = "backup" /\ dry_run) =>
        /\ staged = EmptyTree
        /\ manifestFile = NoFile
        /\ \A c \in Categories : status[c] # "ok"

\* C3: the result of sanitize_name holds only characters of [A-Za-z0-9._-],
\* never two dots in a row, at most 100 characters and at least one; a name
\* without any allowed character gives backup-<date>-<time>.
C3_SanitizeNameSafe ==
    sn.done =>
        /\ \A i \in 1..Len(sn.output) :
              sn.output[i] \in Letters \cup Digits \cup {".", "_", "-"}
        /\ \A i \in 1..(Len(sn.output) - 1) :
              ~(sn.output[i] = "." /\ sn.output[i + 1] = ".")
        /\ Len(sn.output) <= 100
        /\ Len(sn.output) >= 1
        /\ (\A i \in 1..Len(sn.input) : sn.input[i] \notin Letters \cup Digits \cup {".", "_", "-"})
              => sn.output = <<"b", "a", "c", "k", "u", "p", "-">> \o sn.now

\* a name longer than 100 characters with a disallowed character in it has
\* been cut to 100
C3_Witness ==
    /\ sn.done
    /\ Len(sn.input) > 100
    /\ \E i \in 1..Len(sn.input) : sn.input[i] = "/"
    /\ Len(sn.output) = 100

\* C4: the digest of an unchanged tree is the same under every enumeration
\* order, and it changes whenever a file other than the manifest is added
\* to the tree or gets other content.
C4_ChecksumTracksTree ==
    /\ ck.op = "recompute" => ck.digest = ck.prev
    /\ ck.op \in {"add", "modify"} => ck.digest # ck.prev

\* C5: when create_manifest has returned True outside dry-run, the written
\* file reads back with the backup_name, backup_type, shells and source
\* given, and its checksum is non-empty and the digest of the staged tree.
C5_ManifestRoundTrip ==
    (cmd = "backup" /\ ~dry_run /\ manifestRet = "True" /\ AfterManifest) =>
        LET r == read_manifest(manifestFile)
        IN /\ r.ok
           /\ r.value.backup_name = backup_name
           /\ r.value.backup_type = (IF is_shareable THEN "shareable" ELSE "full")
           /\ r.value.shells = shells_to_backup
           /\ r.value.source = [user |-> SysUser, hostname |-> SysHostname,
                                os |-> env.os_name, arch |-> SysArch,
                                package_manager |-> detect_package_manager(env),
                                default_shell |-> SysShell]
           /\ r.value.checksum # <<>>
           /\ r.value.checksum =
                 calculate_checksum(staged, AnEnumeration(DOMAIN staged), {})

\* C6: do_restore offers the directories below backups/ in sorted order,
\* the selection is one of them, and an answer that is not a number in
\* range leads to the range error and a new prompt, never to a crash.
C6_RestoreChoiceAlwaysReprompts ==
    cmd = "restore" =>
        /\ pc = "SelectBackup" =>
              /\ Range(choice.options) = workcopy.dirs
              /\ \A i \in 1..(Len(choice.options) - 1) :
                    Rank(choice.options[i]) < Rank(choice.options[i + 1])
        /\ choice.console = "selected" => backup_name \in Range(choice.options)
        /\ choice.console # "traceback"

\* C7: after a failed push the process exits with 1 and has reported the
\* path of the staged backup while that directory existed; the directory
\* is there until the exit hook runs and gone after it.
C7_PushFailureKeepsLocalBackup ==
    "push_failed" \in reported =>
        /\ pc \in {"Exiting", "Terminated"}
        /\ exitCode = 1
        /\ "copy" \in Range(gitOps)
        /\ "local_path" \in reported /\ "stale_local_path" \notin reported
        /\ pc = "Exiting" => stagedExists
        /\ pc = "Terminated" => ~stagedExists

\* the push has failed and the exit hook has not run yet
C7_Witness ==
    /\ "push_failed" \in reported
    /\ pc = "Exiting"
    /\ stagedExists
    /\ staged # EmptyTree

\* the manifest on disk, when it reads back, lists the shells confirmed at
\* the prompts in the order fish, bash, zsh, and they are the shells whose
\* routine ran
C8_ShellsAsConfirmed ==
    (cmd = "backup" /\ ~is_shareable /\ AfterManifest /\ read_manifest(manifestFile).ok) =>
        /\ read_manifest(manifestFile).value.shells =
              SeqOfShells({sh \in Shells : ("confirmed_" \o sh) \in reported})
        /\ Range(read_manifest(manifestFile).value.shells) =
              {sh \in Shells : ("backup_" \o sh) \in Range(invoked)}

\* the home directory holds only .bashrc and .zshrc and every shell offered
\* was confirmed
C8_Scenario ==
    /\ cmd = "backup" /\ ~is_shareable /\ AfterManifest
    /\ home = {".bashrc", ".zshrc"}
    /\ \A sh \in Shells : sh \in env.commands => ("confirmed_" \o sh) \in reported

\* the staged tree and the manifest the claim describes for the scenario
C8_BashAndZshStaged ==
    /\ <<"shells", "bash", ".bashrc">> \in DOMAIN staged
    /\ <<"shells", "zsh", ".zshrc">> \in DOMAIN staged
    /\ <<"shells", "zsh", "ohmyzsh.tar.gz">> \notin DOMAIN staged
    /\ read_manifest(manifestFile).ok
    /\ read_manifest(manifestFile).value.shells = <<"bash", "zsh">>

C9_MissingDependencyStopsFirst ==
    ((\E d \in {"git", "curl", "tar"} : d \notin env.commands) /\ pc # "CheckDependencies") =>
        /\ pc \in {"Exiting", "Terminated"}
        /\ exitCode = 1
        /\ repo_url = "unread"
        /\ invoked = <<>>
        /\ gitOps = <<>>
        /\ staged = EmptyTree /\ ~stagedExists
        /\ workcopy = NoWorkcopy

\* a restore on a machine that lacks only curl has stopped
C9_Witness ==
    /\ cmd = "restore"
    /\ {"git", "tar"} \subseteq env.commands /\ "curl" \notin env.commands
    /\ pc = "Exiting"
    /\ exitCode = 1

\* C10: in a backup, once the SSH probe of a git@host: URL is rejected the
\* process exits with 1, no clone, init, copy or push is ever attempted,
\* the local path is reported while the staged directory exists, and the
\* failing step leaves the staged tree and its manifest as they were.
C10_SshFailureKeepsLocalBackup ==
    /\ [](("ssh_rejected" \in Range(gitOps) /\ cmd = "backup") =>
            /\ pc \in {"Exiting", "Terminated"}
            /\ exitCode = 1
            /\ Range(gitOps) = {"ssh_rejected"}
            /\ workcopy = NoWorkcopy
            /\ "local_path" \in reported /\ "stale_local_path" \notin reported
            /\ pc = "Exiting" => stagedExists)
    /\ [][(cmd = "backup" /\ pc = "VerifySsh" /\ pc' = "Exiting") =>
            /\ staged' = staged
            /\ manifestFile' = manifestFile
            /\ stagedExists' = stagedExists]_vars

\* the probe was rejected after a backup was staged
C10_Witness ==
    /\ cmd = "backup"
    /\ "ssh_rejected" \in Range(gitOps)
    /\ pc = "Exiting"
    /\ staged # EmptyTree
    /\ "local_path" \in reported

\* the stages of do_backup and the category routines, in the order of the code
BackupStages ==
    <<"CheckDependencies", "CollectRepoURL", "CollectBackupName", "SelectBackupType",
      "SelectData", "SelectShells", "RunShells", "Packages", "Starship", "GitConfig",
      "Ssh", "Conda", "History", "Cloud", "BuildManifest", "VerifySsh", "Clone",
      "InitRepo", "Copy", "Push", "Exiting", "Terminated">>

BackupRoutines ==
    <<"backup_fish", "backup_bash", "backup_zsh", "backup_packages", "backup_starship",
      "backup_git_config", "backup_ssh", "backup_conda", "backup_history",
      "backup_cloud_creds">>

\* position of x in the sequence s
IndexIn(s, x) == CHOOSE i \in 1..Len(s) : s[i] = x

\* C11: do_backup never goes back to an earlier stage; the category routines
\* are called in the order shells, packages, starship, git-config, ssh,
\* conda, history, cloud; the manifest is built only when every category is
\* done, clone/init comes only after the manifest, the copy only after
\* clone/init and the push only after the copy.
C11_BackupStagesInOrder ==
    /\ [](cmd = "backup" =>
            /\ \A i, j \in 1..Len(invoked) :
                  i < j => IndexIn(BackupRoutines, invoked[i]) < IndexIn(BackupRoutines, invoked[j])
            /\ manifestRet # "none" =>
                  /\ \A sh \in Range(shells_to_backup) : ("backup_" \o sh) \in Range(invoked)
                  /\ \A c \in {"packages", "starship", "git_config", "ssh", "conda",
                               "history", "cloud"} : status[c] # "none"
            /\ gitOps # <<>> => manifestRet # "none"
            /\ \A i, j \in 1..Len(gitOps) :
                  /\ (gitOps[i] = "copy" /\ gitOps[j] \in {"ssh_greeted", "clone", "init_cwd",
                                                          "remote_add_origin"}) => j < i
                  /\ (gitOps[i] = "push" /\ gitOps[j] # "push") => j < i
            /\ "push" \in Range(gitOps) => "copy" \in Range(gitOps))
    /\ [][cmd = "backup" =>
            /\ IndexIn(BackupStages, pc) <= IndexIn(BackupStages, pc')
            /\ invoked' # invoked =>
                  /\ pc \in {"RunShells", "Packages", "Starship", "GitConfig", "Ssh", "Conda",
                             "History", "Cloud"}
                  /\ Len(invoked') = Len(invoked) + 1
            /\ manifestRet' # manifestRet => pc = "BuildManifest"
            /\ gitOps' # gitOps => pc \in {"VerifySsh", "Clone", "InitRepo", "Copy", "Push"}]_vars

\* a full backup of a home with shells, SSH keys and cloud credentials was
\* cloned, copied and pushed
C11_Witness ==
    /\ cmd = "backup" /\ pc = "Exiting" /\ "backup_complete" \in reported
    /\ Len(invoked) = 10
    /\ gitOps = <<"ssh_greeted", "clone", "copy", "push">>

\* the stages of do_restore and its routines, in the order of the code
RestoreStages ==
    <<"CheckDependencies", "CollectRepoURL", "FetchBackups", "VerifySsh", "Clone",
      "ListBackups", "SelectBackup", "ConfirmContinue", "SshKeys", "SelectShell",
      "InstallComponents", "RestoreShells", "RestoreStarship", "RestoreGitConfig",
      "CredentialHelper", "RestoreConda", "RestoreHistory", "RestoreCloud",
      "SetDefaultShell", "Exiting", "Terminated">>

RestoreRoutines ==
    <<"restore_ssh", "generate_ssh_key", "install_shell", "install_starship",
      "restore_fish", "restore_bash", "restore_zsh", "restore_starship",
      "restore_git_config", "setup_git_credential_helper", "restore_conda",
      "restore_history", "restore_cloud_creds", "set_default_shell">>

\* the routines that restore a category, without the per-shell ones
CategoryRestores ==
    {"restore_starship", "restore_git_config", "setup_git_credential_helper",
     "restore_conda", "restore_history", "restore_cloud_creds"}

\* C12: do_restore never goes back to an earlier stage; the SSH-key branch
\* is over before the default shell is selected; every shell of the backup
\* and the prompt have been through installation before the first restore
\* routine runs; the routines run in the order shells, starship, git-config,
\* credential helper, conda, history, cloud; set_default_shell is called
\* only when each of them has been called.
C12_RestoreStagesInOrder ==
    /\ [](cmd = "restore" =>
            /\ \A i \in 1..(Len(invoked) - 1) :
                  /\ IndexIn(RestoreRoutines, invoked[i]) <= IndexIn(RestoreRoutines, invoked[i + 1])
                  /\ invoked[i] # "install_shell" => invoked[i] # invoked[i + 1]
            /\ (\E i \in 1..Len(invoked) : invoked[i] \in {"restore_ssh", "generate_ssh_key"})
                  => IndexIn(RestoreStages, pc) > IndexIn(RestoreStages, "SshKeys")
            /\ rs.default_shell # "" =>
                  IndexIn(RestoreStages, pc) > IndexIn(RestoreStages, "SelectShell")
            /\ (\E i \in 1..Len(invoked) :
                   IndexIn(RestoreRoutines, invoked[i]) > IndexIn(RestoreRoutines, "install_starship"))
                  => /\ "install_starship" \in Range(invoked)
                     /\ Cardinality({i \in 1..Len(invoked) : invoked[i] = "install_shell"})
                           = Len(rs.available_shells)
                     /\ rs.default_shell \in Range(rs.available_shells)
            /\ "set_default_shell" \in Range(invoked) =>
                  /\ CategoryRestores \subseteq Range(invoked)
                  /\ \A sh \in Range(rs.available_shells) : ("restore_" \o sh) \in Range(invoked))
    /\ [][cmd = "restore" =>
            /\ IndexIn(RestoreStages, pc) <= IndexIn(RestoreStages, pc')
            /\ rs.default_shell' # rs.default_shell => pc = "SelectShell"
            /\ invoked' # invoked => IndexIn(RestoreStages, pc) >= IndexIn(RestoreStages, "SshKeys")]_vars

C12_Witness ==
    /\ cmd = "restore" /\ pc = "Exiting" /\ "restore_complete" \in reported
    /\ invoked = <<"restore_ssh", "install_shell", "install_shell", "install_starship",
                   "restore_fish", "restore_zsh", "restore_starship", "restore_git_config",
                   "setup_git_credential_helper", "restore_conda", "restore_history",
                   "restore_cloud_creds", "set_default_shell">>

\* C13: once the components are installed and the category restores have
\* begun, a do_restore that ends has called every category restore and
\* set_default_shell, has printed the completion banner and exits with 0,
\* whichever restore step failed on the way.
C13_RestoreRunsToCompletion ==
    (/\ cmd = "restore"
     /\ "restore_confirmed" \in reported
     /\ "install_starship" \in Range(invoked)
     /\ pc \in {"Exiting", "Terminated"})
        => /\ exitCode = 0
           /\ "restore_complete" \in reported
           /\ CategoryRestores \cup {"set_default_shell"} \subseteq Range(invoked)

\* C14: in do_restore an empty repository URL, a rejected SSH probe of a
\* git@ URL, a failed clone and a working copy without any directory below
\* backups/ each end the process with exit status 1 at that very step, with
\* no backup selected; and as long as no backup is selected no routine has
\* run, nothing was written below the home directory and nothing was
\* changed on the system.
C14_EarlyRestoreFailuresExit ==
    /\ [](cmd = "restore" /\ backup_name = "" =>
             /\ invoked = <<>> /\ rs = IdleRs
             /\ \A c \in Categories : status[c] = "none")
    /\ [][(/\ cmd = "restore"
           /\ \/ pc = "CollectRepoURL" /\ repo_url' = ""
              \/ pc = "VerifySsh" /\ gitOps' = Append(gitOps, "ssh_rejected")
              \/ pc = "Clone" /\ faults' = faults + 1
              \/ pc = "ListBackups" /\ ListedBackups(workcopy) = <<>>)
            => /\ pc' = "Exiting" /\ exitCode' = 1
               /\ backup_name' = "" /\ home' = home
               /\ rs' = IdleRs /\ invoked' = <<>>]_vars

C14_Witness ==
    /\ cmd = "restore" /\ pc = "Exiting" /\ exitCode = 1
    /\ gitOps = <<"ssh_greeted", "clone">>
    /\ workcopy.exists /\ workcopy.dirs = {}
    /\ backup_name = ""

\* C15: when the user declines "Continue with restore?" the process exits
\* with status 0 and has run no SSH restore or key generation, no shell or
\* prompt installation, no category restore, no credential-helper
\* configuration and no change of the default shell: nothing was written
\* below the home directory and nothing was changed on the system.
C15_DeclinedRestoreChangesNothing ==
    (cmd = "restore" /\ "restore_cancelled" \in reported) =>
        /\ pc \in {"Exiting", "Terminated"} /\ exitCode = 0
        /\ invoked = <<>>
        /\ rs = IdleRs
        /\ \A c \in Categories : status[c] = "none"
        /\ "restore_complete" \notin reported

C15_Witness ==
    /\ cmd = "restore" /\ "restore_cancelled" \in reported /\ pc = "Terminated"
    /\ backup_name = "zsh-host2-20240215"

\* C16: after a failed clone and a successful init_repo the directory
\* temp_dir/git is a Git repository of its own (with the URL as origin),
\* and the copy and the push work on that repository.
C16_InitRepoCreatesWorkingRepository ==
    (cmd = "backup" /\ "remote_add_origin" \in Range(gitOps) /\ pc # "Terminated")
        => workcopy.repo = "git_dir"

\* C17: outside dry-run push_to_repo stages, commits, pushes main and pushes
\* master only when the push of main failed; it returns True exactly when
\* staging succeeded and a push that was attempted exited zero or reported
\* "Everything up-to-date"; when staging fails nothing else is run and the
\* result is False; when both pushes fail the result is False; a failed
\* commit neither prevents the pushes nor changes the result.
C17_PushResult ==
    (fn.op = "push_to_repo" /\ fn.done /\ ~fn.dry) =>
        LET io == fn.io
            pushes == SelectSeq(fn.ops, LAMBDA o : o \in {"push_main", "push_master"})
            good(o) == (o = "push_main" /\ io.main # "fail")
                          \/ (o = "push_master" /\ io.master # "fail")
        IN /\ fn.ret <=> (io.add = "ok" /\ \E i \in 1..Len(pushes) : good(pushes[i]))
           /\ io.add # "ok" => fn.ops = <<"add">> /\ ~fn.ret
           /\ io.add = "ok" =>
                 /\ SubSeq(fn.ops, 1, 2) = <<"add", "commit">>
                 /\ pushes = IF io.main = "fail" THEN <<"push_main", "push_master">>
                             ELSE <<"push_main">>
                 /\ fn.ops = <<"add", "commit">>
                                \o (IF io.commit = "ok" THEN <<>> ELSE <<"diff_cached">>)
                                \o pushes
                 /\ (io.main = "fail" /\ io.master = "fail") => ~fn.ret
                 /\ fn.ret = push_to_repo(FALSE, [io EXCEPT !.commit = "ok"]).ret

C17_Witness ==
    /\ fn.op = "push_to_repo" /\ fn.done /\ ~fn.dry
    /\ fn.io.add = "ok" /\ fn.io.commit = "fail"
    /\ fn.io.main = "fail" /\ fn.io.master = "uptodate"
    /\ fn.ret

\* C18: verify_ssh_connection returns True without running ssh for every
\* URL that is not "git@", a host of at least one character without a
\* colon, and a colon; for a URL of that form ssh is run and the result is
\* True exactly when stdout followed by stderr contains "successfully
\* authenticated" or "hi " in any mix of upper and lower case, whatever the
\* exit status, and False otherwise, a timeout included.
C18_VerifySshResult ==
    (fn.op = "verify_ssh_connection" /\ fn.done) =>
        LET url == UrlText[fn.url]
            colons == {k \in 1..Len(url) : url[k] = ":"}
            form == /\ Len(url) > 4
                    /\ <<url[1], url[2], url[3], url[4]>> = GitAt
                    /\ colons # {}
                    /\ \A k \in colons : k > 5
            combined == fn.out \o fn.err
            anycase(pat) ==
                \E i \in 0..(Len(combined) - Len(pat)) :
                    \A j \in 1..Len(pat) :
                        \/ combined[i + j] = pat[j]
                        \/ /\ pat[j] \in Range(LowerCase)
                           /\ combined[i + j] = UpperCase[IndexOf(LowerCase, pat[j])]
        IN /\ ~form => fn.ret /\ ~fn.ran
           /\ form => /\ fn.ran
                      /\ fn.ret <=> (anycase(SuccessfullyAuthenticated) \/ anycase(HiSpace))
           /\ (fn.out = <<>> /\ fn.err = <<"t", "i", "m", "e", "o", "u", "t">> /\ form)
                 => ~fn.ret

C18_Witness ==
    /\ fn.op = "verify_ssh_connection" /\ fn.done
    /\ fn.url = "git@github.com:u/r.git" /\ fn.rc = 1 /\ fn.out = <<>>
    /\ Len(fn.err) > 80
    /\ fn.ran /\ fn.ret

\* C19: whichever way do_backup or do_restore ends (completion, the
\* cancelled restore with status 0, every exit with status 1, the ones
\* before config.setup included, where only logging had created the
\* directory) the exit hook is the one step that follows, and after it the
\* temporary directory does not exist and nothing runs any more.
C19_TempDirGoneAfterExit ==
    /\ [](/\ exitCode # -1 <=> pc \in {"Exiting", "Terminated"}
          /\ pc = "Terminated" => ~tempDir /\ ~stagedExists /\ ~workcopy.exists
          /\ (pc = "Exiting" /\ repo_url \in {"unread", ""}) => tempDir)
    /\ [][/\ pc = "Exiting" => pc' = "Terminated" /\ ~tempDir' /\ exitCode' = exitCode
          /\ pc # "Terminated"]_vars

C19_Witness ==
    /\ pc = "Terminated" /\ exitCode = 1 /\ repo_url = "unread"
    /\ MissingDeps(env) # {}
    /\ ~tempDir

\* C20: when cli.main has ended, the arguments before the first one that
\* is not --verbose, -v or --dry-run have set exactly their flags; that
\* first argument, when it is a help, version, backup or restore token, is
\* the one dispatched and nothing after it is looked at; when it is
\* anything else the process exits with status 1 and neither do_backup nor
\* do_restore was called; when there is no such argument help is shown and
\* main returns normally.
C20_ArgumentScan ==
    /\ (fn.op = "main" /\ fn.result = "scanning") => fn.called = "none"
    /\ (fn.op = "main" /\ fn.result # "scanning") =>
          LET argv == fn.argv
              Flags == {"--verbose", "-v", "--dry-run"}
              stops == {i \in 1..Len(argv) : argv[i] \notin Flags}
              k == IF stops = {} THEN Len(argv) + 1
                   ELSE CHOOSE i \in stops : \A j \in stops : i <= j
              seen == {argv[i] : i \in 1..(k - 1)}
          IN /\ fn.verbose <=> (seen \cap {"--verbose", "-v"} # {})
             /\ fn.dry_run <=> ("--dry-run" \in seen)
             /\ k > Len(argv) => fn.called = "show_help" /\ fn.result = "returned"
             /\ k <= Len(argv) =>
                   /\ argv[k] \in {"--help", "-h", "help"}
                         => fn.called = "show_help" /\ fn.result = "returned"
                   /\ argv[k] \in {"--version", "version"}
                         => fn.called = "show_version" /\ fn.result = "returned"
                   /\ argv[k] = "backup" => fn.called = "do_backup"
                   /\ argv[k] = "restore" => fn.called = "do_restore"
                   /\ argv[k] \notin {"--help", "-h", "help", "--version", "version",
                                      "backup", "restore"}
                         => /\ fn.result = "SystemExit(1)"
                            /\ fn.called \notin {"do_backup", "do_restore"}
                   /\ Len(fn.args) >= Len(argv) - k

C20_Witness ==
    /\ fn.op = "main" /\ fn.result = "SystemExit(1)"
    /\ fn.argv = <<"--dry-run", "bogus", "backup">>
    /\ fn.dry_run /\ fn.called = "print_error"

\* C21: for every name typed, the sanitized name is one path component
\* that stays below backups/: it is not empty, holds no "/" and is neither
\* "." nor "..".
C21_SanitizedNameIsPathComponent ==
    sn.done =>
        /\ sn.output # <<>>
        /\ \A i \in 1..Len(sn.output) : sn.output[i] # "/"
        /\ sn.output # <<".">>
        /\ sn.output # <<".", ".">>

\* C22: the copy step creates or changes files of the working copy only
\* below backups/<name> (for the name "." every path below backups/ is
\* taken to be below backups/.); no file is removed; every other backup
\* directory backups/<other> holds what it held before.
C22_CopyTouchesOnlyOwnDirectory ==
    (fn.op = "copy" /\ fn.done) =>
        /\ \A p \in DOMAIN fn.after.tree :
              (p \notin DOMAIN fn.wc.tree \/ fn.after.tree[p] # fn.wc.tree[p])
                 => (p[1] = fn.name \/ fn.name = ".")
        /\ \A p \in DOMAIN fn.wc.tree : p \in DOMAIN fn.after.tree
        /\ \A other \in fn.wc.dirs \ {fn.name} :
              SubTree(fn.after.tree, <<other>>) = SubTree(fn.wc.tree, <<other>>)
        /\ fn.name # "." => fn.after.dirs \ fn.wc.dirs \subseteq {fn.name}

\* C28: after the copy step backups/<name> holds exactly the files of the
\* staged tree, and the checksum taken over backups/<name> is the one
\* recorded in its manifest, also when the clone already held a backup of
\* that name.
C28_CopiedBackupMatchesManifest ==
    (fn.op = "copy" /\ fn.done /\ fn.name # ".") =>
        LET copied == SubTree(fn.after.tree, <<fn.name>>)
            recorded == read_manifest(fn.after.manifests[fn.name])
        IN /\ copied = fn.tree
           /\ recorded.ok
           /\ recorded.value.checksum =
                 calculate_checksum(copied, AnEnumeration(DOMAIN copied), {})

\* the archive of source directory src was attempted and its tar block raised:
\* the file is missing or was left incomplete
ArchiveThrew(path, src) ==
    src \in home /\ ~dry_run /\ (path \notin DOMAIN staged \/ staged[path] = PartialTar)

\* C23: once the routine of an archiving category (fish, zsh with
\* Oh-My-Zsh, SSH keys, cloud credentials) has run, the category shows
\* "error" or "warn", and not "ok", when one of its archives raised, and it
\* shows "skip" only when nothing of the category was found.
C23_ArchiveFailureIsReported ==
    (cmd = "backup" /\ pc # "Terminated") =>
        /\ "backup_fish" \in Range(invoked) =>
              /\ ArchiveThrew(<<"shells", "fish", "fish_config.tar.gz">>, ".config/fish")
                    => status["fish"] \in {"error", "warn"}
              /\ status["fish"] = "skip" => ".config/fish" \notin home
        /\ "backup_zsh" \in Range(invoked) =>
              /\ ArchiveThrew(<<"shells", "zsh", "ohmyzsh.tar.gz">>, ".oh-my-zsh")
                    => status["zsh"] \in {"error", "warn"}
              /\ status["zsh"] = "skip" =>
                    (".oh-my-zsh" \notin home /\ Range(ZshFiles) \cap home = {})
        /\ "backup_ssh" \in Range(invoked) =>
              /\ ArchiveThrew(<<"ssh", "ssh_backup.tar.gz">>, ".ssh")
                    => status["ssh"] \in {"error", "warn"}
              /\ status["ssh"] = "skip" => ".ssh" \notin home
        /\ "backup_cloud_creds" \in Range(invoked) =>
              /\ (\E d \in CloudDirs : ArchiveThrew(<<"config", "cloud", d[1]>>, d[2]))
                    => status["cloud"] \in {"error", "warn"}
              /\ status["cloud"] = "skip" => \A d \in CloudDirs : d[2] \notin home

\* C24: outside dry-run backup_packages writes the list file of a
\* sub-command exactly when that sub-command exited with zero; when at
\* least one file was written the category shows "ok"; a package manager
\* that is not supported shows "skip" and no file is written.
C24_PackageListsFollowExitStatus ==
    (fn.op = "backup_packages" /\ fn.done /\ ~fn.dry) =>
        /\ \A f \in DOMAIN fn.rc : (<<"packages", f>> \in DOMAIN fn.files) <=> (fn.rc[f] = 0)
        /\ \A p \in DOMAIN fn.files : Len(p) = 2 /\ p[1] = "packages" /\ p[2] \in DOMAIN fn.rc
        /\ fn.files # EmptyTree => fn.status = "ok"
        /\ fn.pm \notin {"apt", "brew", "dnf", "yum", "pacman"}
              => fn.status = "skip" /\ fn.files = EmptyTree

C24_Witness ==
    /\ fn.op = "backup_packages" /\ fn.done /\ ~fn.dry /\ fn.pm = "apt"
    /\ fn.rc["apt_packages.txt"] = 1 /\ fn.rc["apt_manual.txt"] = 0
    /\ DOMAIN fn.files = {<<"packages", "apt_manual.txt">>}
    /\ fn.status = "ok"

\* C25: outside dry-run with Conda found, a listing that fails or times
\* out gives "warn" and no export; otherwise every name kept from the
\* listing is exported exactly once and in order whatever the earlier
\* exports did, the count is the number of exports that exited with zero,
\* exactly their <name>.yml files are written, the status is "ok" for a
\* positive count and "warn" for zero; the routine always returns.
C25_CondaExportsEveryEnvironment ==
    (fn.op = "backup_conda" /\ fn.at = "done" /\ ~fn.dry /\ fn.home # {}) =>
        LET good == {k \in 1..Len(fn.rcs) : fn.rcs[k] = "exit0"}
        IN /\ fn.returned
           /\ fn.listed # "exit0" =>
                 fn.status = "warn" /\ fn.attempts = <<>> /\ fn.files = EmptyTree
           /\ fn.listed = "exit0" =>
                 /\ fn.attempts = KeptEnvs(fn.lines)
                 /\ Len(fn.rcs) = Len(fn.attempts)
                 /\ fn.count = Cardinality(good)
                 /\ DOMAIN fn.files = {<<"conda", fn.attempts[k] \o ".yml">> : k \in good}
                 /\ fn.status = IF fn.count > 0 THEN "ok" ELSE "warn"

C25_Witness ==
    /\ fn.op = "backup_conda" /\ fn.at = "done" /\ fn.listed = "exit0"
    /\ fn.attempts = <<"base", "ml", "py-3_8">>
    /\ fn.rcs = <<"timeout", "exit0", "exit1">>
    /\ fn.count = 1 /\ fn.status = "ok"
    /\ DOMAIN fn.files = {<<"conda", "ml.yml">>}

\* C26 as stated: a prompt whose input() ends with EOFError or
\* KeyboardInterrupt returns the default its caller passed and raises
\* nothing.
C26_InterruptedPromptReturnsCallerDefault ==
    (fn.op = "prompt" /\ fn.done /\ fn.eof) =>
        /\ ~fn.raised
        /\ "default" \in DOMAIN fn.args
        /\ fn.result = fn.args.default

\* C26: an interrupted prompt raises nothing; read_input and read_yes_no
\* return the default their caller passed, read_choice, which takes no
\* default, returns 1 (the first option) and read_password the empty string.
C26_InterruptedPromptReturnsItsDefault ==
    (fn.op = "prompt" /\ fn.done /\ fn.eof) =>
        /\ ~fn.raised
        /\ fn.func \in {"read_input", "read_yes_no"} => fn.result = fn.args.default
        /\ fn.func = "read_choice" => fn.result = 1
        /\ fn.func = "read_password" => fn.result = <<>>

C26_Witness ==
    /\ fn.op = "prompt" /\ fn.done /\ fn.eof
    /\ fn.func = "read_input" /\ fn.args.default = DefaultName
    /\ fn.result = DefaultName

C26_WitnessChoice ==
    /\ fn.op = "prompt" /\ fn.done /\ fn.eof
    /\ fn.func = "read_choice" /\ Len(fn.args.options) = 3 /\ fn.passes = 2
    /\ fn.result = 1

\* C27: a call of execute_rollback runs the registered actions once each,
\* last added first, goes on after an action that fails, and leaves the
\* list empty; on an empty list it does nothing; the end of the process
\* runs no rollback action.
C27_RollbackRunsInReverse ==
    [][fn.op = "rollback" =>
         /\ fn'.last = "execute" /\ fn'.calls = fn.calls + 1 =>
               /\ fn'.rollback_stack = <<>>
               /\ Len(fn'.ran) = Len(fn.rollback_stack)
               /\ \A i \in 1..Len(fn.rollback_stack) :
                     fn'.ran[i].action = fn.rollback_stack[Len(fn.rollback_stack) + 1 - i]
               /\ fn.rollback_stack = <<>> => ~fn'.printed
         /\ fn'.last = "add" /\ fn'.rollback_stack # fn.rollback_stack =>
               /\ Len(fn'.rollback_stack) = Len(fn.rollback_stack) + 1
               /\ SubSeq(fn'.rollback_stack, 1, Len(fn.rollback_stack)) = fn.rollback_stack
               /\ fn'.ran = fn.ran
         /\ fn'.exited /\ ~fn.exited =>
               fn'.ran = fn.ran /\ fn'.rollback_stack = fn.rollback_stack]_vars

C27_Witness ==
    /\ fn.op = "rollback" /\ fn.last = "execute" /\ fn.rollback_stack = <<>>
    /\ Len(fn.ran) = 3
    /\ fn.ran[1] = [action |-> "chsh -s /bin/bash", outcome |-> "raised"]
    /\ fn.ran[2] = [action |-> "rm -rf ~/.config/fish", outcome |-> "returned"]
    /\ fn.ran[3] = [action |-> "rm -rf ~/.config/fish", outcome |-> "returned"]

====
